---- MODULE Spec2Model ----
(***************************************************************************)
(* Steward: stewardship-contract evaluation.                               *)
(*                                                                         *)
(* steward-core: five deterministic lenses and the Synthesizer.            *)
(* steward-runtime: RuntimeOrchestrator (fan-out to agents or lenses,      *)
(* circuit breaker, token budget, fallback), EvidenceValidator.            *)
(*                                                                         *)
(* Confidences are f64 in [0,1] in the code; here they are integers in     *)
(* thousandths (0.98 = 980), so that the fallback factor 0.8 is exact.     *)
(***************************************************************************)
EXTENDS Integers, Sequences, FiniteSets, TLC

VARIABLES
    config,       \* RuntimeConfig / CircuitBreakerConfig of the orchestrator
    agents,       \* lens types that have a registered LensAgent
    states,       \* CircuitBreaker.states: lens -> CircuitState (or None)
    lens_used,    \* BudgetTracker.lens_budgets[lens].used
    global_used,  \* BudgetTracker.global_budget.used
    now,          \* the monotonic clock read by Instant::now()
    phase,        \* of the evaluate call: "idle", "running", "returned"
    request,      \* the EvaluationRequest being evaluated
    pc,           \* position of each evaluate_lens future
    finding,      \* the LensFinding each evaluate_lens future returned
    result,       \* what evaluate / synthesize returned
    accepted,     \* history: lenses whose finding was taken from the agent
    completed,    \* history: the order in which the agent calls completed
    seen,         \* history: verdicts returned with no agent registered
    streak,       \* history: record_failure calls since the last reset
    called        \* history: the last call made on the CircuitBreaker

vars == <<config, agents, states, lens_used, global_used, now, phase, request,
          pc, finding, result, accepted, completed, seen, streak, called>>

----------------------------------------------------------------------------
(* Types                                                                   *)

Lens == {"DignityInclusion", "BoundariesSafety", "RestraintPrivacy",
         "TransparencyContestability", "AccountabilityOwnership"}

\* Strings that are compared or sliced are sequences of symbols; an
\* Option<String> is << >> (None) or the string.
\* a call on the CircuitBreaker: the method, its lens, and the circuit state
\* of that lens the call found
NoCall == [op |-> "none", lens |-> "none", before |-> [kind |-> "none"]]

Call(op, lens, before) == [op |-> op, lens |-> lens, before |-> before]

NoFinding == [state |-> "none", confidence |-> 0, rules_evaluated |-> << >>,
              text |-> << >>]

NoResult == [ok |-> FALSE, state |-> "none", lens |-> "none",
             rule_id |-> "none", text |-> << >>, evidence |-> << >>,
             total_rules |-> 0, confidence |-> 0]

\* LensState: Pass | Escalate{reason} | Blocked{violation}; text is the reason
\* or the violation

LensFinding(st, txt, rules, conf) ==
    [state |-> st, confidence |-> conf, rules_evaluated |-> rules, text |-> txt]

Min(a, b) == IF a <= b THEN a ELSE b

Max(a, b) == IF a >= b THEN a ELSE b

----------------------------------------------------------------------------
(* steward-core: Synthesizer                                               *)

checks == <<"DignityInclusion", "BoundariesSafety", "RestraintPrivacy",
            "TransparencyContestability", "AccountabilityOwnership">>

\* position of the first lens, in the order of `order`, whose state is st
\* (0 when there is none)
FirstWithStateSkippingHead(f, order, st) ==
    LET hits == {i \in 2..Len(order) : f[order[i]].state = st}
    IN  IF hits = {} THEN 0
        ELSE CHOOSE i \in hits : \A j \in hits : i <= j

FirstWithState(f, order, st) ==
    LET hits == {i \in 1..Len(order) : f[order[i]].state = st}
    IN  IF hits = {} THEN 0
        ELSE CHOOSE i \in hits : \A j \in hits : i <= j

FirstViolated_last(rules) ==
    LET hits == {i \in 1..Len(rules) : rules[i].result = "Violated"}
    IN  IF hits = {} THEN 0
        ELSE CHOOSE i \in hits : \A j \in hits : i >= j

FirstViolated(rules) ==
    LET hits == {i \in 1..Len(rules) : rules[i].result = "Violated"}
    IN  IF hits = {} THEN 0
        ELSE CHOOSE i \in hits : \A j \in hits : i <= j

find_blocked_reversed(f) ==
    LET rev == [i \in 1..Len(checks) |-> checks[Len(checks) + 1 - i]]
        i == FirstWithState(f, rev, "Blocked")
    IN  IF i = 0 THEN [found |-> FALSE]
        ELSE LET fd == f[rev[i]]
                 v == FirstViolated(fd.rules_evaluated)
             IN  IF v # 0
                 THEN [found |-> TRUE, lens |-> rev[i],
                       rule_id |-> fd.rules_evaluated[v].rule_id,
                       text |-> IF fd.rules_evaluated[v].rule_text = << >>
                                THEN fd.text
                                ELSE fd.rules_evaluated[v].rule_text,
                       evidence |-> fd.rules_evaluated[v].evidence]
                 ELSE [found |-> TRUE, lens |-> rev[i], rule_id |-> "UNKNOWN",
                       text |-> fd.text, evidence |-> << >>]

find_blocked(f) ==
    LET i == FirstWithState(f, checks, "Blocked")
    IN  IF i = 0 THEN [found |-> FALSE]
        ELSE LET fd == f[checks[i]]
                 v == FirstViolated(fd.rules_evaluated)
             IN  IF v # 0
                 THEN [found |-> TRUE, lens |-> checks[i],
                       rule_id |-> fd.rules_evaluated[v].rule_id,
                       text |-> IF fd.rules_evaluated[v].rule_text = << >>
                                THEN fd.text
                                ELSE fd.rules_evaluated[v].rule_text,
                       evidence |-> fd.rules_evaluated[v].evidence]
                 ELSE [found |-> TRUE, lens |-> checks[i], rule_id |-> "UNKNOWN",
                       text |-> fd.text, evidence |-> << >>]

find_escalate_short(f) ==
    LET i == FirstWithState(f, SubSeq(checks, 1, Len(checks) - 1), "Escalate")
    IN  IF i = 0 THEN [found |-> FALSE]
        ELSE [found |-> TRUE, lens |-> checks[i], text |-> f[checks[i]].text]

find_escalate(f) ==
    LET i == FirstWithState(f, checks, "Escalate")
    IN  IF i = 0 THEN [found |-> FALSE]
        ELSE [found |-> TRUE, lens |-> checks[i], text |-> f[checks[i]].text]

RECURSIVE FoldMin(_, _, _)
FoldMin(f, i, acc) ==
    IF i > Len(checks) THEN acc
    ELSE FoldMin(f, i + 1, IF acc = -1 THEN f[checks[i]].confidence
                           ELSE Min(acc, f[checks[i]].confidence))

\* calculate_confidence_from_findings is fold(INFINITY, min) over the five
\* confidences, then .min(1.0).max(0.0)
calculate_confidence_of_first(f) ==
    Max(Min(f[checks[1]].confidence, 1000), 0)

calculate_confidence_from_findings(f) ==
    Max(Min(FoldMin(f, 1, -1), 1000), 0)

RECURSIVE SumRules(_, _)
SumRules(f, i) ==
    IF i > Len(checks) THEN 0
    ELSE Len(f[checks[i]].rules_evaluated) + SumRules(f, i + 1)

build_summary(f) == SumRules(f, 1)

synthesize_escalate_first(f) ==
    LET confidence == calculate_confidence_from_findings(f)
        b == find_blocked(f)
        e == find_escalate(f)
    IN  IF e.found
        THEN [ok |-> TRUE, state |-> "Escalate", lens |-> e.lens,
              rule_id |-> "none", text |-> e.text, evidence |-> << >>,
              total_rules |-> 0, confidence |-> confidence]
        ELSE IF b.found
        THEN [ok |-> TRUE, state |-> "Blocked", lens |-> b.lens,
              rule_id |-> b.rule_id, text |-> b.text, evidence |-> b.evidence,
              total_rules |-> 0, confidence |-> confidence]
        ELSE [ok |-> TRUE, state |-> "Proceed", lens |-> "none",
              rule_id |-> "none", text |-> << >>, evidence |-> << >>,
              total_rules |-> build_summary(f), confidence |-> confidence]

synthesize(f) ==
    LET confidence == calculate_confidence_from_findings(f)
        b == find_blocked(f)
        e == find_escalate(f)
    IN  IF b.found
        THEN [ok |-> TRUE, state |-> "Blocked", lens |-> b.lens,
              rule_id |-> b.rule_id, text |-> b.text, evidence |-> b.evidence,
              total_rules |-> 0, confidence |-> confidence]
        ELSE IF e.found
        THEN [ok |-> TRUE, state |-> "Escalate", lens |-> e.lens,
              rule_id |-> "none", text |-> e.text, evidence |-> << >>,
              total_rules |-> 0, confidence |-> confidence]
        ELSE [ok |-> TRUE, state |-> "Proceed", lens |-> "none",
              rule_id |-> "none", text |-> << >>, evidence |-> << >>,
              total_rules |-> build_summary(f), confidence |-> confidence]

----------------------------------------------------------------------------
(* steward-core: contract, output, evidence                                *)
(*                                                                         *)
(* A Rule is [id, rule] where rule, the free text, is modelled by the set  *)
(* of keywords the lenses test it for with contains() after lower-casing.  *)
(* An Output is its content together with the matches the regex and        *)
(* keyword detectors report on it; a context entry likewise.  A match is   *)
(* [label, start, end].                                                    *)

Has(rule, kws) == (rule.rule \cap kws) # {}

from_output(claim, start, end) ==
    [claim |-> claim, source |-> "Output",
     pointer |-> [form |-> "range", source |-> "output.content", index |-> -1,
                  start |-> start, end |-> end]]

from_context(claim, index, start, end) ==
    [claim |-> claim, source |-> "Context",
     pointer |-> [form |-> "range", source |-> "context", index |-> index,
                  start |-> start, end |-> end]]

from_contract(claim, path) ==
    [claim |-> claim, source |-> "Contract",
     pointer |-> [form |-> "path", source |-> path, index |-> -1,
                  start |-> 0, end |-> 0]]

RuleEvaluation(rule_id, rule_text, res, evidence) ==
    [rule_id |-> rule_id, rule_text |-> rule_text, result |-> res,
     evidence |-> evidence]

\* Evaluation of a contract rule: rule_text is Some(rule.rule.clone()).  The
\* text is carried as the rule's id, which is unique in a contract.
EvalOf(rule, res, evidence) ==
    RuleEvaluation(rule.id, <<rule.id>>, res, evidence)

SetOnce(opt, v) == IF opt = << >> THEN v ELSE opt

RECURSIVE PenaltySum(_, _, _, _)
PenaltySum(rules, i, p0, unc) ==
    IF i > Len(rules) THEN 0
    ELSE (CASE rules[i].result = "Satisfied" ->
                 (IF Len(rules[i].evidence) = 0 THEN p0
                  ELSE IF Len(rules[i].evidence) = 1 THEN 20 ELSE 10)
            [] rules[i].result = "Uncertain" -> unc
            [] OTHER -> 0)
         + PenaltySum(rules, i + 1, p0, unc)

Clamp01(c) == Max(0, Min(c, 1000))

\* boundaries.rs calculate_confidence
calculate_confidence(rules) ==
    IF rules = << >> THEN 500
    ELSE Clamp01(1000 - PenaltySum(rules, 1, 50, 150))

\* dignity.rs calculate_confidence
calculate_confidence_dignity(rules) ==
    IF rules = << >> THEN 500
    ELSE Clamp01(1000 - PenaltySum(rules, 1, 50, 150))

\* transparency.rs calculate_confidence
calculate_confidence_transparency(rules) ==
    IF rules = << >> THEN 500
    ELSE Clamp01(1000 - PenaltySum(rules, 1, 40, 120))

----------------------------------------------------------------------------
(* steward-core: Boundaries & Safety lens                                  *)

check_pii(output) == output.pii

check_secrets(output) == output.secrets

\* the loop over contract.boundaries.invalidated_by; acc is
\* [rules, blocked, escalate] = (rules_evaluated, blocked_violation,
\* escalate_reason)
RECURSIVE InvalidatedByLoop(_, _, _)
InvalidatedByLoop(req, i, acc) ==
    LET inv == req.contract.boundaries.invalidated_by
        out == req.output
    IN  IF i > Len(inv) THEN acc
        ELSE
        LET rule == inv[i]
            pii == check_pii(out)
            sec == check_secrets(out)
        IN  IF Has(rule, {"pii", "personal"}) /\ pii # << >>
            THEN [acc EXCEPT
                    !.rules = Append(@, EvalOf(rule, "Violated",
                        <<from_output(<<pii[1].label, "exposed in response">>,
                                      pii[1].start, pii[1].end)>>)),
                    !.blocked = <<rule.id>>]
            ELSE IF Has(rule, {"credential", "secret"}) /\ sec # << >>
            THEN [acc EXCEPT
                    !.rules = Append(@, EvalOf(rule, "Violated",
                        <<from_output(<<sec[1].label, "exposed">>,
                                      sec[1].start, sec[1].end)>>)),
                    !.blocked = <<rule.id>>]
            ELSE
            LET a1 == IF Has(rule, {"medical"}) /\ Has(rule, {"advice"})
                         /\ out.medical
                      THEN [acc EXCEPT
                              !.rules = Append(@, EvalOf(rule, "Uncertain",
                                  <<from_output(<<"Medical-related content detected">>,
                                                0, Min(Len(out.content), 100))>>)),
                              !.escalate = SetOnce(@,
                                  <<"Possible medical content detected", rule.id>>)]
                      ELSE acc
                a2 == IF a1.blocked = << >> /\ a1.escalate = << >>
                      THEN [a1 EXCEPT !.rules =
                              Append(@, EvalOf(rule, "Satisfied", << >>))]
                      ELSE a1
            IN  InvalidatedByLoop(req, i + 1, a2)

\* index (1-based) of the first context entry with a match for phrase p
FirstPhrase(ctx, p) ==
    LET hits == {k \in 1..Len(ctx) : \E m \in 1..Len(ctx[k].human) :
                                         ctx[k].human[m].phrase = p}
    IN  IF hits = {} THEN 0 ELSE CHOOSE k \in hits : \A j \in hits : k <= j

human_phrases == 6

RECURSIVE HumanPhraseLoop(_, _, _, _)
HumanPhraseLoop(ctx, rule, p, acc) ==
    IF p > human_phrases THEN acc
    ELSE LET k == FirstPhrase(ctx, p)
         IN  IF k = 0 THEN HumanPhraseLoop(ctx, rule, p + 1, acc)
             ELSE LET m == CHOOSE m \in 1..Len(ctx[k].human) :
                               ctx[k].human[m].phrase = p
                  IN  HumanPhraseLoop(ctx, rule, p + 1,
                        [acc EXCEPT
                           !.rules = Append(@, EvalOf(rule, "Uncertain",
                               <<from_context(<<"Customer requested human agent">>,
                                   k - 1, ctx[k].human[m].start,
                                   ctx[k].human[m].end)>>)),
                           !.escalate = SetOnce(@,
                               <<"Customer explicitly requested human agent",
                                 rule.id>>)])

RECURSIVE MustEscalateLoop(_, _, _)
MustEscalateLoop(req, i, acc) ==
    LET esc == req.contract.boundaries.must_escalate_when
        ctx == req.context
    IN  IF i > Len(esc) THEN acc
        ELSE
        LET rule == esc[i]
            has_legal == req.output.legal \/ \E k \in 1..Len(ctx) : ctx[k].legal
            a1 == IF Has(rule, {"legal", "compliance"}) /\ has_legal
                  THEN [acc EXCEPT
                          !.rules = Append(@, EvalOf(rule, "Uncertain", << >>)),
                          !.escalate = SetOnce(@,
                              <<"Legal/compliance topic detected", rule.id>>)]
                  ELSE acc
            a2 == IF Has(rule, {"human"}) /\ Has(rule, {"request"})
                  THEN HumanPhraseLoop(ctx, rule, 1, a1)
                  ELSE a1
        IN  MustEscalateLoop(req, i + 1, a2)

RECURSIVE MustPauseLoop(_, _, _)
MustPauseLoop(req, i, acc) ==
    LET pause == req.contract.boundaries.must_pause_when
        ctx == req.context
    IN  IF i > Len(pause) THEN acc
        ELSE
        LET rule == pause[i]
            hits == {k \in 1..Len(ctx) : ctx[k].frustration}
            a1 == IF Has(rule, {"frustrat", "anger"}) /\ hits # {}
                  THEN LET k == CHOOSE k \in hits : \A j \in hits : k <= j
                       IN  [acc EXCEPT
                              !.rules = Append(@, EvalOf(rule, "Uncertain",
                                  <<from_context(<<"Customer frustration detected">>,
                                      k - 1, 0, Min(Len(ctx[k].content), 50))>>)),
                              !.escalate = SetOnce(@,
                                  <<"Customer frustration detected", rule.id>>)]
                  ELSE acc
        IN  MustPauseLoop(req, i + 1, a1)

BoundariesLens(req) ==
    LET a0 == [rules |-> << >>, blocked |-> << >>, escalate |-> << >>]
        a1 == InvalidatedByLoop(req, 1, a0)
    IN  IF a1.blocked # << >>
        THEN LensFinding("Blocked", a1.blocked, a1.rules, 980)
        ELSE LET a2 == MustEscalateLoop(req, 1, a1)
                 a3 == MustPauseLoop(req, 1, a2)
             IN  LensFinding(IF a3.escalate # << >> THEN "Escalate" ELSE "Pass",
                             a3.escalate, a3.rules,
                             calculate_confidence(a3.rules))

----------------------------------------------------------------------------
(* steward-core: Accountability & Ownership lens                           *)

AccountabilityLens(req) ==
    LET acc == req.contract.accountability
        acc1 == RuleEvaluation("ACC1", <<"Contract must have answerable_human">>,
                               "Satisfied", << >>)
        acc2 == RuleEvaluation("ACC2", <<"Contract should have escalation_path">>,
                   IF acc.escalation_path = << >> THEN "Uncertain" ELSE "Satisfied",
                   << >>)
        acc3 == RuleEvaluation("ACC3", <<"Contract should have approved_by">>,
                   IF acc.approved_by = << >> THEN "Uncertain" ELSE "Satisfied",
                   << >>)
        issues == (IF acc.escalation_path = << >>
                   THEN <<"No escalation path defined">> ELSE << >>)
                  \o (IF acc.approved_by = << >>
                      THEN <<"No approval on record">> ELSE << >>)
    IN  IF acc.answerable_human = << >>
        THEN LensFinding("Blocked",
                 <<"No accountable human defined in contract">>,
                 <<RuleEvaluation("ACC1", <<"Contract must have answerable_human">>,
                       "Violated",
                       <<from_contract(<<"Missing answerable_human">>,
                                       "accountability.answerable_human")>>)>>,
                 990)
        ELSE LensFinding(IF issues # << >> THEN "Escalate" ELSE "Pass",
                         issues, <<acc1, acc2, acc3>>,
                         IF issues = << >> THEN 950 ELSE 750)

----------------------------------------------------------------------------
(* steward-core: Restraint & Privacy lens                                  *)

Filter(rules, kws) ==
    LET Keep(r) == Has(r, kws) IN SelectSeq(rules, Keep)

restraint_rules(contract) ==
    Filter(contract.boundaries.invalidated_by,
           {"pii", "privacy", "credential", "secret", "expose"})
    \o Filter(contract.intent.never_optimize_away, {"privacy", "data"})

DefaultPassConfidence == 600

default_pass_finding(lens) ==
    LensFinding("Pass", << >>, << >>, DefaultPassConfidence)

RestraintLens(req) ==
    IF restraint_rules(req.contract) = << >>
    THEN default_pass_finding("RestraintPrivacy")
    ELSE LensFinding("Pass", << >>, << >>, 700)

----------------------------------------------------------------------------
(* steward-core: Dignity & Inclusion lens                                  *)

dignity_rules(contract) ==
    contract.acceptance.dignity_check
    \o Filter(contract.intent.never_optimize_away,
              {"dignity", "respect", "human", "escalation"})

categorize_rule(rule) ==
    IF Has(rule, {"dismiss", "minimize"}) THEN "Dismissive"
    ELSE IF Has(rule, {"pressure", "coerce"}) THEN "Pressure"
    ELSE IF Has(rule, {"escalat", "human", "path"}) THEN "EscalationPath"
    ELSE IF Has(rule, {"assum", "capabilit"}) THEN "Exclusion"
    ELSE "General"

Violate(acc, rule, evidence) ==
    [acc EXCEPT !.rules = Append(@, EvalOf(rule, "Violated", evidence)),
                !.blocked = SetOnce(@, <<rule.id>>)]

Doubt(acc, rule, evidence, reason) ==
    [acc EXCEPT !.rules = Append(@, EvalOf(rule, "Uncertain", evidence)),
                !.escalate = SetOnce(@, <<reason, rule.id>>)]

Satisfy(acc, rule) ==
    [acc EXCEPT !.rules = Append(@, EvalOf(rule, "Satisfied", << >>))]

DignityStep(out, rule, acc) ==
    LET category == categorize_rule(rule)
        Ev(kind, ms) == <<from_output(<<kind, ms[1].label>>, ms[1].start, ms[1].end)>>
    IN  CASE category = "Dismissive" ->
               IF out.dismissive # << >>
               THEN Violate(acc, rule, Ev("Dismissive language", out.dismissive))
               ELSE Satisfy(acc, rule)
          [] category = "Pressure" ->
               IF out.pressure # << >>
               THEN IF out.human_escalation
                    THEN Doubt(acc, rule, Ev("Pressure language", out.pressure),
                               "Pressure language detected with escalation path")
                    ELSE Violate(acc, rule, Ev("Pressure language", out.pressure))
               ELSE Satisfy(acc, rule)
          [] category = "EscalationPath" ->
               IF out.human_escalation THEN Satisfy(acc, rule)
               ELSE Doubt(acc, rule, << >>, "No human escalation path detected")
          [] category = "Exclusion" ->
               IF out.exclusion # << >>
               THEN Doubt(acc, rule, Ev("Exclusion pattern", out.exclusion),
                          "Potential exclusion pattern detected")
               ELSE Satisfy(acc, rule)
          [] OTHER ->
               IF (out.dismissive # << >> \/ out.pressure # << >>) /\ ~out.empathy
               THEN Doubt(acc, rule, << >>, "Dignity concern detected")
               ELSE Satisfy(acc, rule)

RECURSIVE DignityLoop(_, _, _, _)
DignityLoop(out, rules, i, acc) ==
    IF i > Len(rules) THEN acc
    ELSE DignityLoop(out, rules, i + 1, DignityStep(out, rules[i], acc))

DignityLens(req) ==
    LET rules == dignity_rules(req.contract)
    IN  IF rules = << >> THEN LensFinding("Pass", << >>, << >>, 600)
        ELSE
        LET a == DignityLoop(req.output, rules, 1,
                     [rules |-> << >>, blocked |-> << >>, escalate |-> << >>])
        IN  IF a.blocked # << >>
            THEN LensFinding("Blocked", a.blocked, a.rules, 920)
            ELSE LensFinding(IF a.escalate # << >> THEN "Escalate" ELSE "Pass",
                             a.escalate, a.rules,
                             calculate_confidence_dignity(a.rules))

----------------------------------------------------------------------------
(* steward-core: Transparency & Contestability lens                        *)

transparency_rules(contract) == contract.acceptance.fit_criteria

has_citations(out) == out.citations

check_uncited_claims(out) == IF has_citations(out) THEN << >> ELSE out.claims

check_hidden_assumptions(out) == out.hidden_assumptions

categorize_fit(rule) ==
    IF Has(rule, {"cite", "source", "reference"}) THEN "Citation"
    ELSE IF Has(rule, {"address", "question", "answer"}) THEN "AddressesQuestion"
    ELSE IF Has(rule, {"next step", "action", "clear"}) THEN "NextSteps"
    ELSE IF Has(rule, {"accurat", "correct", "true"}) THEN "Accuracy"
    ELSE IF Has(rule, {"languag", "audience", "appropriate"}) THEN "Language"
    ELSE "General"

TransparencyStep(out, rule, acc) ==
    LET category == categorize_fit(rule)
        uncited == check_uncited_claims(out)
        hidden == check_hidden_assumptions(out)
    IN  CASE category = "Citation" ->
               IF uncited # << >>
               THEN Doubt(acc, rule,
                          <<from_output(<<"Uncited", uncited[1].label>>,
                                        uncited[1].start, uncited[1].end)>>,
                          "Uncited claims detected")
               ELSE Satisfy(acc, rule)
          [] category = "AddressesQuestion" ->
               IF out.addresses_question THEN Satisfy(acc, rule)
               ELSE Doubt(acc, rule, << >>, "Cannot confirm question is addressed")
          [] category = "NextSteps" ->
               IF out.next_steps THEN Satisfy(acc, rule)
               ELSE Doubt(acc, rule, << >>, "No clear next steps provided")
          [] category = "Accuracy" ->
               IF uncited # << >> /\ ~out.explicit_assumptions /\ ~has_citations(out)
               THEN Doubt(acc, rule, << >>, "Accuracy cannot be verified")
               ELSE Satisfy(acc, rule)
          [] category = "Language" ->
               IF out.informal
               THEN Doubt(acc, rule, << >>, "Language may not be appropriate")
               ELSE Satisfy(acc, rule)
          [] OTHER ->
               IF hidden # << >> /\ ~out.contestability
               THEN Doubt(acc, rule,
                          <<from_output(<<"Hidden assumption", hidden[1].label>>,
                                        hidden[1].start, hidden[1].end)>>,
                          "Transparency concern")
               ELSE Satisfy(acc, rule)

RECURSIVE TransparencyLoop(_, _, _, _)
TransparencyLoop(out, rules, i, acc) ==
    IF i > Len(rules) THEN acc
    ELSE TransparencyLoop(out, rules, i + 1, TransparencyStep(out, rules[i], acc))

TransparencyLens(req) ==
    LET fit_criteria == transparency_rules(req.contract)
        out == req.output
    IN  IF fit_criteria = << >>
        THEN IF check_uncited_claims(out) # << >>
                /\ check_hidden_assumptions(out) # << >>
             THEN LensFinding("Escalate",
                      <<"Multiple transparency concerns: uncited claims and hidden assumptions">>,
                      <<RuleEvaluation("IMPLICIT", <<"Implicit transparency check">>,
                                       "Uncertain", << >>)>>,
                      550)
             ELSE LensFinding("Pass", << >>, << >>, 600)
        ELSE
        LET a == TransparencyLoop(out, fit_criteria, 1,
                     [rules |-> << >>, blocked |-> << >>, escalate |-> << >>])
        IN  LensFinding(IF a.escalate # << >> THEN "Escalate" ELSE "Pass",
                        a.escalate, a.rules,
                        calculate_confidence_transparency(a.rules))

\* <X>Lens::new().evaluate(request), by lens type
LensEvaluate(lens, req) ==
    CASE lens = "DignityInclusion" -> DignityLens(req)
      [] lens = "BoundariesSafety" -> BoundariesLens(req)
      [] lens = "RestraintPrivacy" -> RestraintLens(req)
      [] lens = "TransparencyContestability" -> TransparencyLens(req)
      [] lens = "AccountabilityOwnership" -> AccountabilityLens(req)

\* steward_core::evaluate_with_context
evaluate_with_context(req) == synthesize([l \in Lens |-> LensEvaluate(l, req)])

----------------------------------------------------------------------------
(* steward-runtime: EvidenceValidator                                      *)
(*                                                                         *)
(* A pointer is held parsed: form "range" when the text matches            *)
(* pointer_regex (source[start:end] or source[index][start:end]), with the *)
(* captured source name, index (-1 when absent), start and end.            *)

Ok == [ok |-> TRUE]

Err(kind) == [ok |-> FALSE, error |-> kind]

parse_pointer(pointer) ==
    IF pointer.form = "range"
    THEN IF pointer.start > pointer.end
         THEN Err("InvalidPointerFormat")
         ELSE [ok |-> TRUE, source |-> pointer.source, index |-> pointer.index,
               start |-> pointer.start, end |-> pointer.end]
    ELSE Err("InvalidPointerFormat")

\* EvidenceValidationError::PointerOutOfBounds { requested_end, actual_length }
PointerOutOfBounds(requested_end, actual_length) ==
    [ok |-> FALSE, error |-> "PointerOutOfBounds",
     requested_end |-> requested_end, actual_length |-> actual_length]

\* the string a parsed pointer refers to, or the error: the match on source
\* shared by validate_pointer and extract_slice
Resolve(p, output, context) ==
    IF p.source \in {"output.content", "output"} /\ p.index = -1
    THEN IF p.end > Len(output.content)
         THEN PointerOutOfBounds(p.end, Len(output.content))
         ELSE [ok |-> TRUE, string |-> output.content]
    ELSE IF p.source = "context" /\ p.index >= 0
    THEN IF p.index >= Len(context)
         THEN Err("ContextIndexOutOfBounds")
         ELSE IF p.end > Len(context[p.index + 1].content)
         THEN PointerOutOfBounds(p.end, Len(context[p.index + 1].content))
         ELSE [ok |-> TRUE, string |-> context[p.index + 1].content]
    ELSE Err("UnknownSource")

validate_pointer(pointer, output, context) ==
    LET p == parse_pointer(pointer)
    IN  IF ~p.ok THEN p
        ELSE LET r == Resolve(p, output, context)
             IN  IF r.ok THEN Ok ELSE r

\* A string is the sequence of its UTF-8 bytes, an ASCII byte written as its
\* character; "C3" "A9" are the two bytes of U+00E9.
IsContinuation(b) == b \in {"A9"}

\* str::is_char_boundary
is_char_boundary(s, i) ==
    \/ i = 0
    \/ i = Len(s)
    \/ i < Len(s) /\ ~IsContinuation(s[i + 1])

\* the unwinding of a panic through the callers
Panic == [ok |-> FALSE, error |-> "panic"]

\* string[range]: panics unless both ends are char boundaries
Index(s, start, end) ==
    IF is_char_boundary(s, start) /\ is_char_boundary(s, end)
    THEN [ok |-> TRUE, slice |-> SubSeq(s, start + 1, end)]
    ELSE Panic

extract_slice(pointer, output, context) ==
    LET p == parse_pointer(pointer)
    IN  IF ~p.ok THEN p
        ELSE LET r == Resolve(p, output, context)
             IN  IF r.ok THEN Index(r.string, p.start, p.end) ELSE r

\* char::is_whitespace, on the bytes used here
IsSpace(c) == c \in {" ", "\n"}

\* s.split_whitespace().collect().join(" ")
RECURSIVE normalize_whitespace(_)
normalize_whitespace(s) ==
    IF s = << >> THEN << >>
    ELSE IF IsSpace(Head(s)) THEN normalize_whitespace(Tail(s))
    ELSE IF Len(s) = 1 THEN s
    ELSE IF IsSpace(s[2])
         THEN LET rest == normalize_whitespace(Tail(s))
              IN  IF rest = << >> THEN <<Head(s)>>
                  ELSE <<Head(s), " ">> \o rest
         ELSE <<Head(s)>> \o normalize_whitespace(Tail(s))

validate_quote(pointer, quote, output, context) ==
    LET actual == extract_slice(pointer, output, context)
    IN  IF ~actual.ok THEN actual
        ELSE IF normalize_whitespace(actual.slice) # normalize_whitespace(quote)
        THEN Err("QuoteMismatch")
        ELSE Ok

validate(evidence, output, context) ==
    LET r == validate_pointer(evidence.pointer, output, context)
    IN  IF ~r.ok THEN r
        ELSE validate_quote(evidence.pointer, evidence.claim, output, context)

RECURSIVE validate_all(_, _, _)
validate_all(evidence, output, context) ==
    IF evidence = << >> THEN Ok
    ELSE LET r == validate(Head(evidence), output, context)
         IN  IF ~r.ok THEN r ELSE validate_all(Tail(evidence), output, context)

----------------------------------------------------------------------------
(* steward-runtime: CircuitBreaker                                         *)

None == [kind |-> "None"]

Closed(failures) == [kind |-> "Closed", failures |-> failures]

Open(opened_at) == [kind |-> "Open", opened_at |-> opened_at]

HalfOpen(successes) == [kind |-> "HalfOpen", successes |-> successes]

transition_to_half_open(st, lens) ==
    IF st[lens].kind = "Open" THEN [st EXCEPT ![lens] = HalfOpen(0)] ELSE st

\* is_open returns a bool and may move the circuit to HalfOpen
is_open(st, cfg, lens, t) ==
    IF st[lens].kind = "Open"
    THEN IF t - st[lens].opened_at >= cfg.recovery_timeout
         THEN [open |-> FALSE, states |-> transition_to_half_open(st, lens)]
         ELSE [open |-> TRUE, states |-> st]
    ELSE [open |-> FALSE, states |-> st]

record_success_late(st, cfg, lens) ==
    CASE st[lens].kind = "HalfOpen" ->
           IF st[lens].successes + 1 > cfg.success_threshold
           THEN [st EXCEPT ![lens] = Closed(0)]
           ELSE [st EXCEPT ![lens] = HalfOpen(st[lens].successes + 1)]
      [] st[lens].kind = "Closed" -> [st EXCEPT ![lens] = Closed(0)]
      [] OTHER -> st

record_success(st, cfg, lens) ==
    CASE st[lens].kind = "HalfOpen" ->
           IF st[lens].successes + 1 >= cfg.success_threshold
           THEN [st EXCEPT ![lens] = Closed(0)]
           ELSE [st EXCEPT ![lens] = HalfOpen(st[lens].successes + 1)]
      [] st[lens].kind = "Closed" -> [st EXCEPT ![lens] = Closed(0)]
      [] OTHER -> st

record_failure_shared(st, cfg, lens, t) ==
    CASE st[lens].kind = "Closed" ->
           IF st[lens].failures + 1 >= cfg.failure_threshold
           THEN [l \in DOMAIN st |-> Open(t)]
           ELSE [st EXCEPT ![lens] = Closed(st[lens].failures + 1)]
      [] st[lens].kind = "HalfOpen" -> [st EXCEPT ![lens] = Open(t)]
      [] st[lens].kind = "None" -> [st EXCEPT ![lens] = Closed(1)]
      [] OTHER -> st

record_failure(st, cfg, lens, t) ==
    CASE st[lens].kind = "Closed" ->
           IF st[lens].failures + 1 >= cfg.failure_threshold
           THEN [st EXCEPT ![lens] = Open(t)]
           ELSE [st EXCEPT ![lens] = Closed(st[lens].failures + 1)]
      [] st[lens].kind = "HalfOpen" -> [st EXCEPT ![lens] = Open(t)]
      [] st[lens].kind = "None" -> [st EXCEPT ![lens] = Closed(1)]
      [] OTHER -> st

----------------------------------------------------------------------------
(* steward-runtime: BudgetTracker                                          *)

\* max_tokens.saturating_sub(used)
remaining(max_tokens, used) == Max(max_tokens - used, 0)

PerLensMax == 1000

can_afford(cfg, lused, gused, lens, estimated_tokens) ==
    /\ remaining(PerLensMax, lused[lens]) >= estimated_tokens
    /\ remaining(cfg.global_max_tokens, gused) >= estimated_tokens

----------------------------------------------------------------------------
(* Requests, configurations and agent answers the model ranges over        *)

Rule(id, kws) == [id |-> id, rule |-> kws]

Match(label, start, end) == [label |-> label, start |-> start, end |-> end]

CleanOutput(content) ==
    [content |-> content, pii |-> << >>, secrets |-> << >>, medical |-> FALSE,
     legal |-> FALSE, dismissive |-> << >>, pressure |-> << >>,
     exclusion |-> << >>, human_escalation |-> FALSE, empathy |-> FALSE,
     citations |-> FALSE, claims |-> << >>, hidden_assumptions |-> << >>,
     explicit_assumptions |-> FALSE, contestability |-> FALSE,
     next_steps |-> FALSE, addresses_question |-> FALSE, informal |-> FALSE]

Entry(content) ==
    [content |-> content, frustration |-> FALSE, legal |-> FALSE, human |-> << >>]

BaseContract ==
    [intent |-> [never_optimize_away |-> << >>],
     boundaries |-> [may_do_autonomously |-> << >>, must_pause_when |-> << >>,
                     must_escalate_when |-> << >>, invalidated_by |-> << >>],
     accountability |-> [answerable_human |-> <<"support@example.com">>,
                         escalation_path |-> << >>, approved_by |-> << >>],
     acceptance |-> [fit_criteria |-> << >>, dignity_check |-> << >>]]

\* lib.rs test_basic_evaluation: no boundary rules, full accountability
BasicRequest ==
    [contract |-> [BaseContract EXCEPT
        !.boundaries.may_do_autonomously = <<Rule("A1", {"answer", "question"})>>,
        !.accountability.escalation_path = <<"Tier 1 Support", "Manager">>,
        !.accountability.approved_by = <<"Manager">>],
     output |-> CleanOutput(<<"o", "k">>),
     context |-> << >>]

\* lib.rs test_pii_blocked, with a dignity check the output also violates
PiiRequest ==
    [contract |-> [BaseContract EXCEPT
        !.boundaries.invalidated_by = <<Rule("B1", {"pii", "expose"})>>,
        !.acceptance.dignity_check = <<Rule("D1", {"pressure"})>>],
     output |-> [CleanOutput(<<"x", "@", "y", " ", "n", "o", "w">>) EXCEPT
        !.pii = <<Match("Email address", 0, 3)>>,
        !.pressure = <<Match("urgency pressure", 4, 7)>>],
     context |-> << >>]

\* boundaries.rs test_frustration_escalation
FrustrationRequest ==
    [contract |-> [BaseContract EXCEPT
        !.boundaries.must_pause_when = <<Rule("P1", {"frustrat"})>>,
        !.accountability.escalation_path = <<"Tier 1">>,
        !.accountability.approved_by = <<"Manager">>],
     output |-> CleanOutput(<<"o", "k">>),
     context |-> <<[Entry(<<"g", "r", "r">>) EXCEPT !.frustration = TRUE]>>]

Requests == {BasicRequest, PiiRequest, FrustrationRequest}

NoRequest == [none |-> TRUE]

\* clock ticks the model runs for
MaxTime == 2

\* circuit_breaker.rs tests: failure_threshold 2; success_threshold default 2
FailureThreshold == 2

SuccessThreshold == 2

\* recovery_timeout, in clock ticks
RecoveryTimeout == 1

\* BudgetTracker::default global budget, and one below the estimate of a call
GlobalMax == 5000

LowGlobalMax == 400

RuntimeConfig(global_max_tokens) ==
    [failure_threshold |-> FailureThreshold, recovery_timeout |-> RecoveryTimeout,
     success_threshold |-> SuccessThreshold,
     global_max_tokens |-> global_max_tokens]

Configs == {RuntimeConfig(GlobalMax), RuntimeConfig(LowGlobalMax)}

\* the sets of lenses that get an agent registered
AgentSets == {{}, {"BoundariesSafety"}, {"DignityInclusion", "BoundariesSafety"}}

\* what an agent may answer: any state, with evidence that is a true quote
\* of the output or points past its end
AgentEvidence(req) ==
    LET c == req.output.content
    IN  {[claim |-> SubSeq(c, 1, 2), source |-> "Output",
          pointer |-> [form |-> "range", source |-> "output.content",
                       index |-> -1, start |-> 0, end |-> 2]],
         [claim |-> SubSeq(c, 1, 2), source |-> "Output",
          pointer |-> [form |-> "range", source |-> "output.content",
                       index |-> -1, start |-> 0, end |-> Len(c) + 1]]}

AgentConfidence == 900

AgentFindings(req) ==
    {LensFinding(st, IF st = "Pass" THEN << >> ELSE <<"agent">>,
                 <<RuleEvaluation("L1", <<"L1">>,
                       CASE st = "Pass" -> "Satisfied"
                         [] st = "Escalate" -> "Uncertain"
                         [] OTHER -> "Violated",
                       <<ev>>)>>,
                 AgentConfidence) :
        st \in {"Pass", "Escalate", "Blocked"}, ev \in AgentEvidence(req)}

----------------------------------------------------------------------------
(* steward-runtime: RuntimeOrchestrator                                    *)

EstimatedTokens == 500

fallback_to_deterministic_compounded(lens, req) ==
    LET f == LensEvaluate(lens, req)
    IN  [ok |-> TRUE,
         finding |-> [f EXCEPT !.confidence = (((@ * 8) \div 10) * 8) \div 10]]

fallback_to_deterministic(lens, req) ==
    LET f == LensEvaluate(lens, req)
    IN  [ok |-> TRUE, finding |-> [f EXCEPT !.confidence = (@ * 8) \div 10]]

\* the arms of the match on timeout(do_evaluate_lens).await in evaluate_lens;
\* each gives the new circuit states and the Result evaluate_lens returns
evaluate_lens_ok(st, cfg, lens, f) ==
    [states |-> record_success(st, cfg, lens),
     ret |-> [ok |-> TRUE, finding |-> f]]

evaluate_lens_err_propagated(st, cfg, lens, req, t) ==
    [states |-> record_failure(st, cfg, lens, t),
     ret |-> [ok |-> FALSE, finding |-> NoFinding]]

evaluate_lens_err(st, cfg, lens, req, t) ==
    [states |-> record_failure(st, cfg, lens, t),
     ret |-> fallback_to_deterministic(lens, req)]

evaluate_lens_timeout_twice(st, cfg, lens, req, t) ==
    [states |-> record_failure(record_failure(st, cfg, lens, t), cfg, lens, t),
     ret |-> fallback_to_deterministic(lens, req)]

evaluate_lens_timeout(st, cfg, lens, req, t) ==
    [states |-> record_failure(st, cfg, lens, t),
     ret |-> fallback_to_deterministic(lens, req)]

PcOf(p, ret) == IF ret.ok THEN p ELSE "failed"

\* what evaluate_lens leaves behind once arm a of its match has run
Resolved(a) == [states |-> a.states, pc |-> PcOf("done", a.ret), ret |-> a.ret]

\* the match of evaluate_lens on r, a Result that arrived within the timeout
evaluate_lens_match(st, cfg, lens, req, t, r) ==
    IF r.ok THEN Resolved(evaluate_lens_ok(st, cfg, lens, r.finding))
    ELSE Resolved(evaluate_lens_err(st, cfg, lens, req, t))

do_evaluate_lens_unscaled(lens, req) ==
    [ok |-> TRUE, finding |-> LensEvaluate(lens, req)]

\* do_evaluate_lens when no agent is registered for the lens; with an agent
\* it awaits agent.evaluate (AgentReturns, AgentFails, AgentTimesOut)
do_evaluate_lens(lens, req) == fallback_to_deterministic(lens, req)

evaluate_lens_unbudgeted(st, cfg, lused, gused, ags, lens, req, t) ==
    LET o == is_open(st, cfg, lens, t)
    IN  IF o.open
        THEN Resolved([states |-> o.states,
                       ret |-> fallback_to_deterministic(lens, req)])
        ELSE IF lens \in ags
        THEN [states |-> o.states, pc |-> "awaiting",
              ret |-> [ok |-> TRUE, finding |-> NoFinding]]
        ELSE evaluate_lens_match(o.states, cfg, lens, req, t,
                                 do_evaluate_lens(lens, req))

\* evaluate_lens up to its first await: [states, pc, ret]
evaluate_lens(st, cfg, lused, gused, ags, lens, req, t) ==
    LET o == is_open(st, cfg, lens, t)
    IN  IF o.open
        THEN Resolved([states |-> o.states,
                       ret |-> fallback_to_deterministic(lens, req)])
        ELSE IF ~can_afford(cfg, lused, gused, lens, EstimatedTokens)
        THEN Resolved([states |-> o.states,
                       ret |-> fallback_to_deterministic(lens, req)])
        ELSE IF lens \in ags
        THEN [states |-> o.states, pc |-> "awaiting",
              ret |-> [ok |-> TRUE, finding |-> NoFinding]]
        ELSE evaluate_lens_match(o.states, cfg, lens, req, t,
                                 do_evaluate_lens(lens, req))

JoinStep(acc, lens, e) ==
    [acc EXCEPT !.states = e.states, !.pc[lens] = e.pc,
                !.finding[lens] = e.ret.finding]

\* tokio::join! polls the five evaluate_lens futures in this order
RECURSIVE JoinPoll(_, _, _, _, _, _, _)
JoinPoll(i, acc, cfg, lused, gused, ags, req) ==
    IF i > Len(checks) THEN acc
    ELSE JoinPoll(i + 1,
             JoinStep(acc, checks[i],
                      evaluate_lens(acc.states, cfg, lused, gused, ags,
                                    checks[i], req, acc.now)),
             cfg, lused, gused, ags, req)

Verdict(r) == [state |-> r.state, confidence |-> r.confidence]

\* RuntimeOrchestrator::new and the register_agent calls of the builder
New(cfg, ags) ==
    /\ phase \in {"idle", "returned"}
    /\ config' = cfg
    /\ agents' = ags
    /\ states' = [l \in Lens |-> None]
    /\ lens_used' = [l \in Lens |-> 0]
    /\ global_used' = 0
    /\ phase' = "idle"
    /\ request' = NoRequest
    /\ pc' = [l \in Lens |-> "idle"]
    /\ finding' = [l \in Lens |-> NoFinding]
    /\ result' = NoResult
    /\ accepted' = {}
    /\ completed' = << >>
    /\ UNCHANGED <<now, seen, streak, called>>

\* evaluate is called: the request is built and join! polls the five futures
Evaluate(req) ==
    /\ phase \in {"idle", "returned"}
    /\ LET acc == JoinPoll(1, [states |-> states, now |-> now,
                               pc |-> [l \in Lens |-> "idle"],
                               finding |-> [l \in Lens |-> NoFinding]],
                           config, lens_used, global_used, agents, req)
       IN  /\ states' = acc.states
           /\ pc' = acc.pc
           /\ finding' = acc.finding
    /\ phase' = "running"
    /\ request' = req
    /\ result' = NoResult
    /\ accepted' = {}
    /\ completed' = << >>
    /\ UNCHANGED <<config, agents, lens_used, global_used, now, seen, streak,
                   called>>

Finish(lens, a, took) ==
    /\ states' = a.states
    /\ pc' = [pc EXCEPT ![lens] = a.pc]
    /\ finding' = [finding EXCEPT ![lens] = a.ret.finding]
    /\ accepted' = IF took THEN accepted \cup {lens} ELSE accepted
    /\ completed' = Append(completed, lens)
    /\ UNCHANGED <<config, agents, lens_used, global_used, now, phase, request,
                   result, seen, streak, called>>

\* the agent of the lens answers Ok(finding) within the timeout
AgentReturns(lens, f) ==
    /\ phase = "running" /\ pc[lens] = "awaiting"
    /\ Finish(lens, Resolved(evaluate_lens_ok(states, config, lens, f)), TRUE)

\* the agent of the lens answers Err(AgentError) within the timeout
AgentFails(lens) ==
    /\ phase = "running" /\ pc[lens] = "awaiting"
    /\ Finish(lens, Resolved(evaluate_lens_err(states, config, lens, request, now)), FALSE)

\* the timeout of the lens elapses before the agent answers
AgentTimesOut(lens) ==
    /\ phase = "running" /\ pc[lens] = "awaiting"
    /\ Finish(lens, Resolved(evaluate_lens_timeout(states, config, lens, request, now)), FALSE)

\* RuntimeResult { evaluation, llm_usage, early_terminated: false }, held as
\* the evaluation's fields with early_terminated added; llm_usage is not
\* modelled
RuntimeResult(evaluation) ==
    [k \in DOMAIN evaluation \cup {"early_terminated"} |->
        IF k = "early_terminated" THEN FALSE ELSE evaluation[k]]

\* evaluate after the join: the five `?`, synthesize, Ok(RuntimeResult)
evaluate_result(p, f) ==
    IF \E l \in Lens : p[l] = "failed" THEN NoResult
    ELSE RuntimeResult(synthesize(f))

ReturnStepOnBlocked ==
    /\ phase = "running"
    /\ \/ \A l \in Lens : pc[l] \in {"done", "failed"}
       \/ \E l \in Lens : pc[l] = "done" /\ finding[l].state = "Blocked"
    /\ result' = evaluate_result(pc, finding)
    /\ phase' = "returned"
    /\ UNCHANGED <<config, agents, states, lens_used, global_used, now, request,
                   pc, finding, accepted, completed, streak, called>>

\* evaluate from the end of the join to its return
ReturnStep ==
    /\ phase = "running"
    /\ \A l \in Lens : pc[l] \in {"done", "failed"}
    /\ result' = evaluate_result(pc, finding)
    /\ phase' = "returned"
    /\ UNCHANGED <<config, agents, states, lens_used, global_used, now, request,
                   pc, finding, accepted, completed, streak, called>>

Return == ReturnStep /\ UNCHANGED seen

Tick ==
    /\ now < MaxTime
    /\ now' = now + 1
    /\ UNCHANGED <<config, agents, states, lens_used, global_used, phase,
                   request, pc, finding, result, accepted, completed, seen,
                   streak, called>>

Init ==
    /\ config = RuntimeConfig(GlobalMax)
    /\ agents = {}
    /\ states = [l \in Lens |-> None]
    /\ lens_used = [l \in Lens |-> 0]
    /\ global_used = 0
    /\ now = 0
    /\ phase = "idle"
    /\ request = NoRequest
    /\ pc = [l \in Lens |-> "idle"]
    /\ finding = [l \in Lens |-> NoFinding]
    /\ result = NoResult
    /\ accepted = {}
    /\ completed = << >>
    /\ seen = << >>
    /\ streak = [l \in Lens |-> 0]
    /\ called = NoCall

\* what the pending agents of the current request may answer
AgentAnswers == IF request = NoRequest THEN {} ELSE AgentFindings(request)

Progress ==
    \/ \E l \in Lens : \E f \in AgentAnswers : AgentReturns(l, f)
    \/ \E l \in Lens : AgentFails(l)
    \/ \E l \in Lens : AgentTimesOut(l)
    \/ Return

Next ==
    \/ \E cfg \in Configs, ags \in AgentSets : New(cfg, ags)
    \/ \E req \in Requests : Evaluate(req)
    \/ \E l \in Lens : \E f \in AgentAnswers : AgentReturns(l, f)
    \/ \E l \in Lens : AgentFails(l)
    \/ \E l \in Lens : AgentTimesOut(l)
    \/ Return
    \/ Tick

Spec == Init /\ [][Next]_vars

\* a pending agent call resolves or its timeout fires, and the task that runs
\* evaluate is scheduled
FairSpec == Spec /\ WF_vars(Progress)

----------------------------------------------------------------------------
(* Synthesizer::synthesize applied to every combination of five findings   *)

ARule(res) == RuleEvaluation("R1", <<"R1">>, res, << >>)

\* findings of each state, with confidences over the whole of [0, 1]
SynthFindings ==
    {LensFinding("Pass", << >>, <<ARule("Satisfied")>>, 500),
     LensFinding("Pass", << >>, << >>, 1000),
     LensFinding("Escalate", <<"why">>, <<ARule("Uncertain")>>, 0),
     LensFinding("Escalate", <<"why">>, << >>, 700),
     LensFinding("Blocked", <<"what">>, <<ARule("Satisfied"), ARule("Violated")>>, 950),
     LensFinding("Blocked", <<"what">>, << >>, 500)}

InitSynth ==
    /\ finding \in [Lens -> SynthFindings]
    /\ config = RuntimeConfig(GlobalMax)
    /\ agents = {}
    /\ states = [l \in Lens |-> None]
    /\ lens_used = [l \in Lens |-> 0]
    /\ global_used = 0
    /\ now = 0
    /\ phase = "idle"
    /\ request = NoRequest
    /\ pc = [l \in Lens |-> "done"]
    /\ result = NoResult
    /\ accepted = {}
    /\ completed = << >>
    /\ seen = << >>
    /\ streak = [l \in Lens |-> 0]
    /\ called = NoCall

Synthesize ==
    /\ phase = "idle"
    /\ result' = synthesize(finding)
    /\ phase' = "returned"
    /\ UNCHANGED <<config, agents, states, lens_used, global_used, now, request,
                   pc, finding, accepted, completed, seen, streak, called>>

NextSynth == Synthesize

SpecSynth == InitSynth /\ [][NextSynth]_vars

\* C1: whenever at least one of the five findings is Blocked, synthesize
\* returns Blocked, whatever the other four findings are.
C1_BlockedPrecedence ==
    phase = "returned" /\ (\E l \in Lens : finding[l].state = "Blocked")
        => result.state = "Blocked"

C1_Witness ==
    /\ phase = "returned"
    /\ result.state = "Blocked"
    /\ \E l \in Lens : finding[l].state = "Escalate"
    /\ \E l \in Lens : finding[l].state = "Pass"
    /\ Cardinality({l \in Lens : finding[l].state = "Blocked"}) >= 2

\* C2: whenever no finding is Blocked and at least one is Escalate,
\* synthesize returns Escalate.
C2_EscalatePrecedence ==
    /\ phase = "returned"
    /\ \A l \in Lens : finding[l].state # "Blocked"
    /\ \E l \in Lens : finding[l].state = "Escalate"
    => result.state = "Escalate"

C2_Witness ==
    /\ phase = "returned"
    /\ result.state = "Escalate"
    /\ {l \in Lens : finding[l].state = "Escalate"} = {"AccountabilityOwnership"}
    /\ \A l \in Lens \ {"AccountabilityOwnership"} : finding[l].state = "Pass"

C4_ConfidenceIsMinimum ==
    phase = "returned"
        => /\ \E l \in Lens : result.confidence = finding[l].confidence
           /\ \A l \in Lens : result.confidence <= finding[l].confidence

C4_Witness ==
    /\ phase = "returned"
    /\ result.state = "Blocked"
    /\ result.lens = "DignityInclusion"
    /\ result.confidence < finding["DignityInclusion"].confidence
    /\ result.confidence = finding["AccountabilityOwnership"].confidence

----------------------------------------------------------------------------
(* Repeated evaluation with no agent registered, through steward-core and  *)
(* through orchestrators of any configuration; seen keeps, per entry point *)
(* and request, every verdict returned so far.                             *)

EntryPoints == {"core", "runtime"}

InitDet ==
    /\ config \in Configs
    /\ agents = {}
    /\ states = [l \in Lens |-> None]
    /\ lens_used = [l \in Lens |-> 0]
    /\ global_used = 0
    /\ now = 0
    /\ phase = "idle"
    /\ request = NoRequest
    /\ pc = [l \in Lens |-> "idle"]
    /\ finding = [l \in Lens |-> NoFinding]
    /\ result = NoResult
    /\ accepted = {}
    /\ completed = << >>
    /\ seen = [k \in EntryPoints \X Requests |-> {}]
    /\ streak = [l \in Lens |-> 0]
    /\ called = NoCall

ReturnSeen ==
    /\ ReturnStep
    /\ seen' = [seen EXCEPT ![<<"runtime", request>>] = @ \cup {Verdict(result')}]

\* steward_core::evaluate_with_context called directly
CoreEvaluate(req) ==
    /\ phase \in {"idle", "returned"}
    /\ request' = req
    /\ finding' = [l \in Lens |-> LensEvaluate(l, req)]
    /\ result' = evaluate_with_context(req)
    /\ pc' = [l \in Lens |-> "done"]
    /\ phase' = "returned"
    /\ seen' = [seen EXCEPT ![<<"core", req>>] = @ \cup {Verdict(result')}]
    /\ UNCHANGED <<config, agents, states, lens_used, global_used, now,
                   accepted, completed, streak, called>>

NextDet ==
    \/ \E cfg \in Configs : New(cfg, {})
    \/ \E req \in Requests : Evaluate(req)
    \/ ReturnSeen
    \/ \E req \in Requests : CoreEvaluate(req)
    \/ Tick

SpecDet == InitDet /\ [][NextDet]_vars

\* C6: evaluation is deterministic: for each entry point (steward-core, and
\* an orchestrator with no agent registered) all calls with the same contract,
\* output and context have returned the same state and confidence, whatever
\* was evaluated before and whatever the configuration and the time.
C6_Deterministic ==
    \A k \in EntryPoints \X Requests : Cardinality(seen[k]) <= 1

C6_Witness ==
    /\ phase = "returned"
    /\ config = RuntimeConfig(LowGlobalMax)
    /\ now > 0
    /\ \A k \in EntryPoints \X Requests : Cardinality(seen[k]) = 1

----------------------------------------------------------------------------
(* Properties of RuntimeOrchestrator::evaluate                             *)

\* C5: when several lenses report the same severity, the lens that supplies
\* the violation (Blocked) or the uncertainty (Escalate) of the verdict is
\* the first with that state in the order Dignity, Boundaries, Restraint,
\* Transparency, Accountability, whatever order the evaluations completed in.
C5_CanonicalTieBreak ==
    LET canonical == <<"DignityInclusion", "BoundariesSafety",
                       "RestraintPrivacy", "TransparencyContestability",
                       "AccountabilityOwnership">>
        rank(l) == CHOOSE i \in 1..5 : canonical[i] = l
        first(st) == CHOOSE l \in Lens :
                        /\ finding[l].state = st
                        /\ \A m \in Lens : finding[m].state = st => rank(l) <= rank(m)
    IN  phase = "returned" /\ result.state \in {"Blocked", "Escalate"}
            => /\ result.lens = first(result.state)
               /\ result.state = "Escalate"
                    => result.text = finding[first("Escalate")].text
               /\ result.state = "Blocked"
                    => \/ result.text = finding[first("Blocked")].text
                       \/ \E i \in DOMAIN finding[first("Blocked")].rules_evaluated :
                            LET r == finding[first("Blocked")].rules_evaluated[i]
                            IN  /\ r.result = "Violated"
                                /\ result.rule_id = r.rule_id
                                /\ result.text = r.rule_text

C5_Witness ==
    /\ phase = "returned"
    /\ result.state = "Blocked"
    /\ result.lens = "DignityInclusion"
    /\ finding["DignityInclusion"].state = "Blocked"
    /\ finding["BoundariesSafety"].state = "Blocked"
    /\ completed = <<"BoundariesSafety", "DignityInclusion">>

\* C7: evaluate always terminates and returns Ok with a verdict: no agent
\* error, agent timeout, open circuit or exhausted budget on any lens makes
\* it return an Err.
C7_AlwaysReturnsOk ==
    /\ [](phase = "returned" => result.ok /\ result.state \in {"Proceed", "Escalate", "Blocked"})
    /\ (phase = "running") ~> (phase = "returned")

C7_Witness ==
    /\ phase = "returned"
    /\ result.ok
    /\ \E i \in DOMAIN completed : completed[i] \notin accepted
    /\ \E l \in Lens : states[l].kind = "Open"

\* C8: an agent never overrides a deterministic verdict: if the deterministic
\* lens of some type yields Blocked on the request the verdict is Blocked,
\* and if one yields Escalate the verdict is not Proceed, whatever the
\* registered agents return.
C8_AgentNeverOverrides ==
    phase = "returned"
        => /\ (\E l \in Lens : LensEvaluate(l, request).state = "Blocked")
                => result.state = "Blocked"
           /\ (\E l \in Lens : LensEvaluate(l, request).state = "Escalate")
                => result.state # "Proceed"

\* C9: a finding an agent returned reaches the Synthesizer only if every
\* evidence item in it passes EvidenceValidator; otherwise the deterministic
\* result is used and the failure is recorded on the circuit of the lens.
C9_EvidenceValidatedBeforeAcceptance ==
    phase = "returned"
        => \A l \in accepted :
              \A i \in DOMAIN finding[l].rules_evaluated :
                 validate_all(finding[l].rules_evaluated[i].evidence,
                              request.output, request.context).ok

----------------------------------------------------------------------------
(* CircuitBreaker driven through its public methods, for every configured  *)
(* failure_threshold; streak counts the record_failure calls of a lens     *)
(* since the breaker was created, reset, or last saw the circuit closed by *)
(* a success.                                                              *)

\* largest failure_threshold configured
MaxThreshold == 3

\* record_failure calls counted per lens
MaxStreak == 4

\* the lenses the breaker is driven for (circuit_breaker.rs tests)
CBLenses == {"DignityInclusion", "BoundariesSafety"}

state(st, lens) == IF st[lens].kind = "None" THEN Closed(0) ELSE st[lens]

reset(st) == [l \in DOMAIN st |-> None]

InitCB ==
    /\ config \in {[RuntimeConfig(GlobalMax) EXCEPT !.failure_threshold = n] :
                      n \in 1..MaxThreshold}
    /\ agents = {}
    /\ states = [l \in Lens |-> None]
    /\ lens_used = [l \in Lens |-> 0]
    /\ global_used = 0
    /\ now = 0
    /\ phase = "idle"
    /\ request = NoRequest
    /\ pc = [l \in Lens |-> "idle"]
    /\ finding = [l \in Lens |-> NoFinding]
    /\ result = NoResult
    /\ accepted = {}
    /\ completed = << >>
    /\ seen = << >>
    /\ streak = [l \in Lens |-> 0]
    /\ called = NoCall

CBUnchanged ==
    UNCHANGED <<config, agents, lens_used, global_used, now, phase, request,
                pc, finding, result, accepted, completed, seen>>

RecordFailure(lens) ==
    /\ streak[lens] < MaxStreak
    /\ states' = record_failure(states, config, lens, now)
    /\ streak' = [streak EXCEPT ![lens] = @ + 1]
    /\ called' = Call("record_failure", lens, states[lens])
    /\ CBUnchanged

RecordSuccess(lens) ==
    /\ states' = record_success(states, config, lens)
    /\ streak' = [streak EXCEPT ![lens] =
                     IF state(states', lens).kind = "Closed" THEN 0 ELSE @]
    /\ called' = Call("record_success", lens, states[lens])
    /\ CBUnchanged

IsOpen(lens) ==
    /\ states' = is_open(states, config, lens, now).states
    /\ UNCHANGED streak
    /\ called' = Call("is_open", lens, states[lens])
    /\ CBUnchanged

Reset ==
    /\ states' = reset(states)
    /\ streak' = [l \in Lens |-> 0]
    /\ called' = Call("reset", "none", [kind |-> "none"])
    /\ CBUnchanged

NextCB ==
    \/ \E l \in CBLenses : RecordFailure(l)
    \/ \E l \in CBLenses : RecordSuccess(l)
    \/ \E l \in CBLenses : IsOpen(l)
    \/ Reset
    \/ Tick

SpecCB == InitCB /\ [][NextCB]_vars

\* C10: for every failure_threshold >= 1 the circuit of a lens is open
\* (is_open returns true) once failure_threshold consecutive record_failure
\* calls were made for it and not before: a closed circuit has seen fewer
\* failures than the threshold since it was fresh or last reset by a success.
C10_OpensAtThreshold ==
    \A l \in CBLenses :
        /\ state(states, l).kind = "Closed"
              => /\ streak[l] < config.failure_threshold
                 /\ ~is_open(states, config, l, now).open
        /\ states[l].kind = "Open"
              => /\ streak[l] >= config.failure_threshold
                 /\ now - states[l].opened_at < config.recovery_timeout
                       => is_open(states, config, l, now).open

----------------------------------------------------------------------------
(* CircuitBreaker called from several threads.  record_success and         *)
(* record_failure run under the write lock; is_open reads under the read   *)
(* lock, drops it, and transition_to_half_open then takes the write lock:  *)
(* pc[lens] = "transition" while a caller of is_open is between the two.   *)

CBFrame ==
    UNCHANGED <<config, agents, lens_used, global_used, now, phase, request,
                finding, result, accepted, completed, seen, streak>>

\* is_open up to drop(states): the caller has seen Open past its timeout
IsOpenRead(lens) ==
    /\ pc[lens] = "idle"
    /\ pc' = IF /\ states[lens].kind = "Open"
                /\ now - states[lens].opened_at >= config.recovery_timeout
             THEN [pc EXCEPT ![lens] = "transition"]
             ELSE pc
    /\ UNCHANGED <<states, called>>
    /\ CBFrame

\* the rest of is_open: transition_to_half_open under the write lock
IsOpenWrite(lens) ==
    /\ pc[lens] = "transition"
    /\ states' = transition_to_half_open(states, lens)
    /\ pc' = [pc EXCEPT ![lens] = "idle"]
    /\ called' = Call("is_open", lens, states[lens])
    /\ CBFrame

NextCBConc ==
    \/ \E l \in CBLenses : RecordFailure(l)
    \/ \E l \in CBLenses : RecordSuccess(l)
    \/ \E l \in CBLenses : IsOpen(l)
    \/ \E l \in CBLenses : IsOpenRead(l)
    \/ \E l \in CBLenses : IsOpenWrite(l)
    \/ Tick

SpecCBConc == InitCB /\ [][NextCBConc]_vars

\* C11: once the circuit of a lens is open it stays open, with is_open
\* returning true, until recovery_timeout has elapsed since it was last
\* opened, under every interleaving of is_open, record_success and
\* record_failure calls; record_success and record_failure leave Open alone.
C11_StaysOpenUntilTimeout ==
    [][\A l \in CBLenses :
          /\ states[l].kind = "Open"
          /\ now' - states[l].opened_at < config.recovery_timeout
          => /\ states'[l] = states[l]
             /\ is_open(states', config, l, now').open]_vars

\* C12: while the circuit of a lens is HalfOpen a record_success closes it
\* (Closed, failures 0) only when the successes accumulated since it became
\* HalfOpen reach success_threshold; with fewer it stays HalfOpen with the
\* count one higher.  The count starts at 0 when the circuit becomes HalfOpen.
C12_HalfOpenClosesAtThreshold ==
    \A l \in CBLenses :
        /\ called.op = "record_success" /\ called.lens = l
           /\ called.before.kind = "HalfOpen"
              => IF called.before.successes + 1 >= config.success_threshold
                 THEN states[l] = Closed(0)
                 ELSE states[l] = HalfOpen(called.before.successes + 1)
        /\ called.op = "is_open" /\ called.lens = l
           /\ called.before.kind # "HalfOpen" /\ states[l].kind = "HalfOpen"
              => states[l].successes = 0
        /\ states[l].kind = "HalfOpen"
              => states[l].successes < config.success_threshold

C12_Witness ==
    /\ called.op = "record_success"
    /\ called.before = HalfOpen(SuccessThreshold - 1)
    /\ states[called.lens] = Closed(0)

\* C13: a record_failure received while the circuit of a lens is HalfOpen
\* moves it to Open with opened_at the time of the call, whatever the count
\* of successes was, and from then on the circuit stays Open until
\* recovery_timeout has elapsed since that call.
C13_FailureInHalfOpenReopens ==
    [][\A l \in CBLenses :
          /\ states[l].kind = "HalfOpen"
             /\ called' = Call("record_failure", l, states[l])
                => states'[l] = Open(now)
          /\ called.op = "record_failure" /\ called.lens = l
             /\ called.before.kind = "HalfOpen"
             /\ states[l].kind = "Open"
             /\ now' - states[l].opened_at < config.recovery_timeout
                => states'[l] = states[l]]_vars

\* C14: circuits are independent per lens: a record_failure, record_success
\* or is_open for one lens changes the circuit state of no other lens, and a
\* lens whose is_open was false before such a call on another lens still has
\* is_open false after it.
C14_LensesIndependent ==
    [][states' # states =>
          \A m \in Lens :
              called'.lens # m
                 => /\ states'[m] = states[m]
                    /\ ~is_open(states, config, m, now).open
                          => ~is_open(states', config, m, now').open]_vars

C14_Witness ==
    /\ called.op = "record_failure" /\ called.lens = "DignityInclusion"
    /\ states["DignityInclusion"].kind = "Open"
    /\ is_open(states, config, "DignityInclusion", now).open
    /\ states["BoundariesSafety"] = Closed(1)
    /\ ~is_open(states, config, "BoundariesSafety", now).open

----------------------------------------------------------------------------
(* BudgetTracker on its own: SpecBudget                                    *)
(* config holds the tracker as constructed: global_max_tokens and          *)
(* lens_budgets, the max_tokens of every lens that has a TokenBudget.      *)

\* The counters are u32; every value reached here stays below
\* MaxGlobalUsed plus one usage, far from the 2^32 at which they wrap.

\* TokenUsage::total
total(usage) == usage.prompt_tokens + usage.completion_tokens

\* TokenBudget::record: used.fetch_add(tokens)
record(used, tokens) == used + tokens

\* TokenBudget::can_afford
budget_can_afford(max_tokens, used, tokens) ==
    remaining(max_tokens, used) >= tokens

\* BudgetTracker::new
BudgetTracker_new(global_max, per_lens_max) ==
    [global_max_tokens |-> global_max,
     lens_budgets |-> [l \in Lens |-> per_lens_max]]

\* BudgetTracker::with_lens_budgets
with_lens_budgets(global_max, budgets) ==
    [global_max_tokens |-> global_max, lens_budgets |-> budgets]

\* BudgetTracker::can_afford
tracker_can_afford(cfg, lused, gused, lens, estimated_tokens) ==
    /\ IF lens \in DOMAIN cfg.lens_budgets
       THEN budget_can_afford(cfg.lens_budgets[lens], lused[lens],
                              estimated_tokens)
       ELSE TRUE
    /\ budget_can_afford(cfg.global_max_tokens, gused, estimated_tokens)

\* BudgetTracker::record_usage: the used counters of the lens and of the
\* global budget afterwards
record_usage(cfg, lused, gused, lens, usage) ==
    [lens_used |-> IF lens \in DOMAIN cfg.lens_budgets
                   THEN [lused EXCEPT ![lens] = record(@, total(usage))]
                   ELSE lused,
     global_used |-> record(gused, total(usage))]

remaining_global(cfg, gused) == remaining(cfg.global_max_tokens, gused)

remaining_lens(cfg, lused, lens) ==
    IF lens \in DOMAIN cfg.lens_budgets
    THEN remaining(cfg.lens_budgets[lens], lused[lens])
    ELSE 0

TestGlobalMax == 500
TestLensMax == 100
MaxGlobalUsed == 300

TokenUsage(p, c) ==
    [prompt_tokens |-> p, completion_tokens |-> c,
     cache_read_tokens |-> 0, cache_creation_tokens |-> 0]

Usages == {TokenUsage(30, 20), TokenUsage(40, 20)}

Estimates == {40, 50, 60}

Trackers ==
    {BudgetTracker_new(TestGlobalMax, TestLensMax),
     with_lens_budgets(TestGlobalMax,
                       [l \in {"DignityInclusion"} |-> TestLensMax])}

InitBudget ==
    /\ config \in Trackers
    /\ agents = {}
    /\ states = [l \in Lens |-> None]
    /\ lens_used = [l \in Lens |-> 0]
    /\ global_used = 0
    /\ now = 0
    /\ phase = "idle"
    /\ request = NoRequest
    /\ pc = [l \in Lens |-> "idle"]
    /\ finding = [l \in Lens |-> NoFinding]
    /\ result = NoResult
    /\ accepted = {}
    /\ completed = {}
    /\ seen = << >>
    /\ streak = [l \in Lens |-> 0]
    /\ called = NoCall

BudgetFrame ==
    UNCHANGED <<config, agents, states, now, phase, request, pc, finding,
                result, accepted, completed, seen, streak>>

\* a call of can_afford; called keeps the answer and what remained
CanAfford(lens, n) ==
    /\ called' = [op |-> "can_afford", lens |-> lens, tokens |-> n,
                  answer |-> tracker_can_afford(config, lens_used,
                                                global_used, lens, n),
                  remaining_lens |-> remaining_lens(config, lens_used, lens),
                  remaining_global |-> remaining_global(config, global_used)]
    /\ UNCHANGED <<lens_used, global_used>>
    /\ BudgetFrame

\* a call of record_usage; called keeps what remained before it
RecordUsage(lens, usage) ==
    /\ global_used < MaxGlobalUsed
    /\ lens_used' = record_usage(config, lens_used, global_used, lens,
                                 usage).lens_used
    /\ global_used' = record_usage(config, lens_used, global_used, lens,
                                   usage).global_used
    /\ called' = [op |-> "record_usage", lens |-> lens,
                  tokens |-> total(usage), answer |-> TRUE,
                  remaining_lens |-> remaining_lens(config, lens_used, lens),
                  remaining_global |-> remaining_global(config, global_used)]
    /\ BudgetFrame

\* BudgetTracker::reset
BudgetReset ==
    /\ lens_used' = [l \in Lens |-> 0]
    /\ global_used' = 0
    /\ called' = [op |-> "reset", lens |-> "none", tokens |-> 0,
                  answer |-> TRUE,
                  remaining_lens |-> 0,
                  remaining_global |-> remaining_global(config, global_used)]
    /\ BudgetFrame

BudgetLenses == {"DignityInclusion", "BoundariesSafety"}

NextBudget ==
    \/ \E l \in BudgetLenses, n \in Estimates : CanAfford(l, n)
    \/ \E l \in BudgetLenses, u \in Usages : RecordUsage(l, u)
    \/ BudgetReset

SpecBudget == InitBudget /\ [][NextBudget]_vars

\* C15: can_afford(lens, n) answers true only if n is at most the remaining
\* budget of the lens and at most the remaining global budget; after
\* record_usage the remaining budget of the lens and the remaining global
\* budget are both lower by the recorded total.
C15_BudgetEnforced ==
    /\ called.op = "can_afford" /\ called.answer
          => /\ called.tokens <= called.remaining_lens
             /\ called.tokens <= called.remaining_global
    /\ called.op = "record_usage"
          => /\ remaining_lens(config, lens_used, called.lens)
                   = called.remaining_lens - called.tokens
             /\ remaining_global(config, global_used)
                   = called.remaining_global - called.tokens

----------------------------------------------------------------------------
(* Properties of RuntimeOrchestrator::evaluate_lens                       *)

\* C16: when evaluate is called and the circuit of a lens is open or the
\* budget cannot afford the estimated call for it, the lens is resolved at
\* once with the deterministic lens finding whose confidence is multiplied
\* by 0.8, and for the rest of this evaluation the lens never awaits its
\* agent and keeps that finding.
C16_BypassUsesScaledFallback ==
    [][\A l \in Lens :
          /\ phase # "running" /\ phase' = "running"
             /\ \/ is_open(states, config, l, now).open
                \/ ~can_afford(config, lens_used, global_used, l,
                               EstimatedTokens)
                => /\ pc'[l] = "done"
                   /\ finding'[l] =
                        [LensEvaluate(l, request') EXCEPT
                            !.confidence = (@ * 8) \div 10]
                   /\ completed' = << >>
          /\ phase = "running" /\ pc[l] = "done"
                => /\ finding'[l] = finding[l]
                   /\ phase' = "running" => pc'[l] = "done"
                   /\ \A i \in 1..Len(completed') :
                         completed'[i] = l => i <= Len(completed)]_vars

C16_Witness ==
    \E l \in agents :
        /\ phase = "running"
        /\ states[l].kind = "Open"
        /\ \A i \in 1..Len(completed) : completed[i] # l
        /\ pc[l] = "done"
        /\ finding[l] = [LensEvaluate(l, request) EXCEPT
                            !.confidence = (@ * 8) \div 10]
        /\ finding[l].confidence < LensEvaluate(l, request).confidence

\* C17: when the agent call of a lens returns an error or runs into the
\* timeout, exactly one failure is recorded on the circuit of that lens, the
\* lens is resolved with the finding of the deterministic lens (as the
\* fallback returns it), and the circuits, positions and findings of the
\* other four lenses and the running evaluation are left as they were.
C17_AgentFailureFallsBack ==
    [][\A l \in Lens :
          completed' = Append(completed, l) /\ l \notin accepted'
             => /\ states'[l] =
                     CASE states[l].kind = "None" -> Closed(1)
                       [] states[l].kind = "Closed" ->
                            IF states[l].failures + 1
                                  >= config.failure_threshold
                            THEN Open(now)
                            ELSE Closed(states[l].failures + 1)
                       [] states[l].kind = "HalfOpen" -> Open(now)
                       [] OTHER -> states[l]
                /\ pc[l] = "awaiting" /\ pc'[l] = "done"
                /\ finding'[l] = fallback_to_deterministic(l, request).finding
                /\ finding'[l].state = LensEvaluate(l, request).state
                /\ \A m \in Lens \ {l} :
                      /\ states'[m] = states[m]
                      /\ pc'[m] = pc[m]
                      /\ finding'[m] = finding[m]
                /\ phase' = "running" /\ request' = request
                /\ result' = result]_vars

C17_Witness ==
    \E l \in agents, m \in agents :
        /\ phase = "running"
        /\ completed = <<l>> /\ l \notin accepted
        /\ states[l] = Closed(1)
        /\ pc[l] = "done"
        /\ finding[l] = fallback_to_deterministic(l, request).finding
        /\ m # l /\ pc[m] = "awaiting"

----------------------------------------------------------------------------
(* EvidenceValidator on its own: SpecVal                                   *)
(* request holds the output and the context the validator was created for, *)
(* called the evidence last validated and result what validate returned.   *)

MaxOffset == 4

ValTexts ==
    {<<"a", " ", " ", "b">>, <<"a", "\n", "b">>, <<"C3", "A9", "b">>}

ValContexts == {<< >>, <<[content |-> <<"a", "b">>]>>}

ValQuotes ==
    {<< >>, <<"a">>, <<"a", "b">>, <<"a", " ", "b">>, <<" ", "a", " ">>,
     <<"C3", "A9">>}

\* pointers that match pointer_regex, and one text that does not
ValPointers ==
    {[form |-> "range", source |-> src[1], index |-> src[2],
      start |-> a, end |-> b] :
        src \in {<<"output", -1>>, <<"output.content", -1>>,
                 <<"context", 0>>, <<"context", 1>>, <<"unknown", -1>>},
        a \in 0..MaxOffset, b \in 0..MaxOffset}
    \cup {[form |-> "malformed", source |-> "not-a-pointer", index |-> -1,
           start |-> 0, end |-> 0]}

ValEvidence ==
    {[claim |-> q, source |-> "Output", pointer |-> p] :
        q \in ValQuotes, p \in ValPointers}

ValFrame ==
    UNCHANGED <<config, agents, states, lens_used, global_used, now, phase,
                pc, finding, accepted, completed, seen, streak>>

\* EvidenceValidator::new
NewValidator(content, context) ==
    /\ request' = [output |-> [content |-> content], context |-> context]
    /\ result' = NoResult
    /\ called' = NoCall
    /\ ValFrame

\* EvidenceValidator::validate
Validate(evidence) ==
    /\ request # NoRequest
    /\ result' = validate(evidence, request.output, request.context)
    /\ called' = [op |-> "validate", evidence |-> evidence]
    /\ UNCHANGED request
    /\ ValFrame

InitVal ==
    /\ config = RuntimeConfig(GlobalMax)
    /\ agents = {}
    /\ states = [l \in Lens |-> None]
    /\ lens_used = [l \in Lens |-> 0]
    /\ global_used = 0
    /\ now = 0
    /\ phase = "idle"
    /\ request = NoRequest
    /\ pc = [l \in Lens |-> "idle"]
    /\ finding = [l \in Lens |-> NoFinding]
    /\ result = NoResult
    /\ accepted = {}
    /\ completed = << >>
    /\ seen = << >>
    /\ streak = [l \in Lens |-> 0]
    /\ called = NoCall

NextVal ==
    \/ \E c \in ValTexts, ctx \in ValContexts : NewValidator(c, ctx)
    \/ \E e \in ValEvidence : Validate(e)

SpecVal == InitVal /\ [][NextVal]_vars

\* C19: for a pointer source[start:end] that matches the grammar and whose
\* source resolves to a string of length len, validate fails with
\* PointerOutOfBounds, carrying the requested end and len, whenever
\* start <= end <= len does not hold.
C19_OutOfBoundsReported ==
    called.op = "validate" /\ called.evidence.pointer.form = "range"
        => LET p == called.evidence.pointer
               resolves ==
                   \/ p.source \in {"output", "output.content"} /\ p.index = -1
                   \/ /\ p.source = "context"
                      /\ p.index \in 0..(Len(request.context) - 1)
               string == IF p.source = "context"
                         THEN request.context[p.index + 1].content
                         ELSE request.output.content
           IN  resolves /\ ~(p.start <= p.end /\ p.end <= Len(string))
                  => result = PointerOutOfBounds(p.end, Len(string))

\* C20: for a pointer that matches the grammar, resolves to a string and has
\* start <= end <= len, validate returns Ok exactly when the bytes
\* [start, end) of the string equal the claim after whitespace normalization
\* of both, and fails with QuoteMismatch for every other claim.
C20_QuoteMatchesSlice ==
    called.op = "validate" /\ called.evidence.pointer.form = "range"
        => LET p == called.evidence.pointer
               resolves ==
                   \/ p.source \in {"output", "output.content"} /\ p.index = -1
                   \/ /\ p.source = "context"
                      /\ p.index \in 0..(Len(request.context) - 1)
               string == IF p.source = "context"
                         THEN request.context[p.index + 1].content
                         ELSE request.output.content
           IN  resolves /\ p.start <= p.end /\ p.end <= Len(string)
                  => IF normalize_whitespace(SubSeq(string, p.start + 1, p.end))
                          = normalize_whitespace(called.evidence.claim)
                     THEN result = Ok
                     ELSE result = Err("QuoteMismatch")

\* C21: validate fails by class and never accepts: a pointer that does not
\* match the grammar fails with InvalidPointerFormat, a grammatical pointer
\* whose source is not output, output.content or context[i] fails with
\* UnknownSource, and a grammatical pointer to context[i] with i not less
\* than the number of context entries fails with ContextIndexOutOfBounds.
C21_FailsClosedByClass ==
    called.op = "validate"
        => LET p == called.evidence.pointer
           IN  /\ p.form # "range" => result = Err("InvalidPointerFormat")
               /\ p.form = "range"
                  /\ ~(p.source \in {"output", "output.content"} /\ p.index = -1)
                  /\ ~(p.source = "context" /\ p.index >= 0)
                     => result = Err("UnknownSource")
               /\ p.form = "range" /\ p.source = "context"
                  /\ p.index >= Len(request.context)
                     => result = Err("ContextIndexOutOfBounds")

----------------------------------------------------------------------------
(* steward_core::evaluate_with_context over a family of contracts, outputs *)
(* and contexts: SpecCore                                                  *)

CoreInvalidatedBy ==
    {<< >>,
     <<Rule("B1", {"pii", "expose"})>>,
     <<Rule("B1", {"pii", "expose"}), Rule("B2", {"secret"})>>,
     <<Rule("B2", {"secret"}), Rule("B1", {"pii", "expose"})>>}

CoreDignityChecks ==
    {<< >>,
     <<Rule("D1", {"dismiss"}), Rule("D2", {"pressure"})>>,
     <<Rule("D2", {"pressure"}), Rule("D1", {"dismiss"})>>,
     <<Rule("D3", {"escalat"})>>}

CoreFitCriteria == {<< >>, <<Rule("F1", {"cite"})>>}

CoreMustPause == {<< >>, <<Rule("P1", {"frustrat"})>>}

\* the accountability section: full, only answerable_human, or without it
CoreAccountability ==
    {[answerable_human |-> <<"support@example.com">>,
      escalation_path |-> <<"Tier 1 Support", "Manager">>,
      approved_by |-> <<"Manager">>],
     [answerable_human |-> <<"support@example.com">>,
      escalation_path |-> << >>, approved_by |-> << >>],
     [answerable_human |-> << >>,
      escalation_path |-> <<"Tier 1 Support">>, approved_by |-> <<"Manager">>]}

CoreContracts ==
    {[BaseContract EXCEPT
         !.boundaries.invalidated_by = inv,
         !.boundaries.must_pause_when = mp,
         !.acceptance.dignity_check = dc,
         !.acceptance.fit_criteria = fc,
         !.accountability = ac] :
        inv \in CoreInvalidatedBy, mp \in CoreMustPause,
        dc \in CoreDignityChecks, fc \in CoreFitCriteria,
        ac \in CoreAccountability}

CoreOutputs ==
    {CleanOutput(<<"o", "k">>),
     [CleanOutput(<<"x", "@", "y", " ", "k", "e", "y">>) EXCEPT
         !.pii = <<Match("Email address", 0, 3)>>,
         !.secrets = <<Match("API key", 4, 7)>>],
     [CleanOutput(<<"j", "u", "s", "t", " ", "n", "o", "w">>) EXCEPT
         !.dismissive = <<Match("dismissive phrase", 0, 4)>>,
         !.pressure = <<Match("urgency pressure", 5, 8)>>],
     [CleanOutput(<<"a", "l", "l", " ", "d", "o">>) EXCEPT
         !.claims = <<Match("claim", 0, 3)>>,
         !.hidden_assumptions = <<Match("assumption", 4, 6)>>]}

CoreContexts ==
    {<< >>, <<[Entry(<<"g", "r", "r">>) EXCEPT !.frustration = TRUE]>>}

CoreRequests ==
    {[contract |-> c, output |-> o, context |-> ctx] :
        c \in CoreContracts, o \in CoreOutputs, ctx \in CoreContexts}

InitCore ==
    /\ config = RuntimeConfig(GlobalMax)
    /\ agents = {}
    /\ states = [l \in Lens |-> None]
    /\ lens_used = [l \in Lens |-> 0]
    /\ global_used = 0
    /\ now = 0
    /\ phase = "idle"
    /\ request = NoRequest
    /\ pc = [l \in Lens |-> "idle"]
    /\ finding = [l \in Lens |-> NoFinding]
    /\ result = NoResult
    /\ accepted = {}
    /\ completed = << >>
    /\ seen = << >>
    /\ streak = [l \in Lens |-> 0]
    /\ called = NoCall

CoreFrame ==
    UNCHANGED <<config, agents, states, lens_used, global_used, now, accepted,
                completed, seen, streak, called>>

\* steward_core::evaluate_with_context is called and returns
EvaluateCore(req) ==
    /\ phase = "idle"
    /\ request' = req
    /\ finding' = [l \in Lens |-> LensEvaluate(l, req)]
    /\ result' = evaluate_with_context(req)
    /\ pc' = [l \in Lens |-> "done"]
    /\ phase' = "returned"
    /\ CoreFrame

\* the caller drops the result
DropResult ==
    /\ phase = "returned"
    /\ request' = NoRequest
    /\ finding' = [l \in Lens |-> NoFinding]
    /\ result' = NoResult
    /\ pc' = [l \in Lens |-> "idle"]
    /\ phase' = "idle"
    /\ CoreFrame

NextCore ==
    \/ \E req \in CoreRequests : EvaluateCore(req)
    \/ DropResult

SpecCore == InitCore /\ [][NextCore]_vars

\* C22: for a contract with no boundary rules and a full accountability
\* section and a clean output, evaluate returns Proceed with a confidence
\* greater than 0.9.
C22_CleanProceedsWithHighConfidence ==
    (/\ phase = "returned"
     /\ request.contract.boundaries.invalidated_by = << >>
     /\ request.contract.boundaries.must_pause_when = << >>
     /\ request.contract.boundaries.must_escalate_when = << >>
     /\ request.contract.accountability.answerable_human # << >>
     /\ request.contract.accountability.escalation_path # << >>
     /\ request.contract.accountability.approved_by # << >>
     /\ request.output = CleanOutput(request.output.content))
        => result.state = "Proceed" /\ result.confidence > 900

----------------------------------------------------------------------------
(* steward-runtime: ExtensionManager applied to a synthesized result:      *)
(* SpecExt.  result holds the EvaluationResult with its metadata map.      *)

\* HashMap::insert
insert(m, k, v) == [x \in DOMAIN m \cup {k} |-> IF x = k THEN v ELSE m[x]]

\* an EvaluationResult as synthesis leaves it: the metadata map is empty
Synthesized(evaluation) ==
    [k \in DOMAIN evaluation \cup {"metadata"} |->
        IF k = "metadata" THEN << >> ELSE evaluation[k]]

metadata_mut(r) == r.metadata

\* synthesizer.rs min_confidence
min_confidence(f) == FoldMin(f, 1, -1)

\* format!("{:.2}", c): hundredths, rounded from thousandths
Format2(c) == (c + 5) \div 10

FinancialServicesExtension(r, f) ==
    [r EXCEPT !.metadata =
        insert(insert(insert(insert(metadata_mut(r),
            "regulatory_framework", "SEC_17a-4"),
            "compliance_domain", "financial_services"),
            "audit_enabled", "true"),
            "evaluated_confidence", Format2(min_confidence(f)))]

HealthcareExtension(r, f) ==
    [r EXCEPT !.metadata =
        insert(insert(insert(metadata_mut(r),
            "compliance_domain", "healthcare"),
            "phi_detection_mode", "strict"),
            "hipaa_applicable", "true")]

\* An implementation of the trait outside this crate: add_metadata receives
\* result: &mut EvaluationResult and may store any EvaluationResult through
\* it; this one stores the result of an evaluation of its own.
OverwritingExtension(r, f) ==
    Synthesized(synthesize([l \in Lens |-> LensFinding("Pass", << >>, << >>, 1000)]))

ExtensionNames == {"FinancialServices", "Healthcare", "Overwriting"}

\* SynthesizerMetadataExtension::add_metadata, by implementation
add_metadata(ext, r, f) ==
    CASE ext = "FinancialServices" -> FinancialServicesExtension(r, f)
      [] ext = "Healthcare" -> HealthcareExtension(r, f)
      [] ext = "Overwriting" -> OverwritingExtension(r, f)

\* ExtensionManager::apply: the loop over self.extensions from position i
RECURSIVE apply(_, _, _, _)
apply(extensions, i, r, f) ==
    IF i > Len(extensions) THEN r
    ELSE apply(extensions, i + 1, add_metadata(extensions[i], r, f), f)

MaxExtensions == 2

ExtensionLists ==
    UNION {[1..n -> ExtensionNames] : n \in 0..MaxExtensions}

ExtFindings ==
    {LensFinding("Pass", << >>, << >>, 1000),
     LensFinding("Escalate", <<"why">>, << >>, 700),
     LensFinding("Blocked", <<"what">>, <<ARule("Satisfied"), ARule("Violated")>>, 950)}

InitExt ==
    /\ finding \in [Lens -> ExtFindings]
    /\ config = RuntimeConfig(GlobalMax)
    /\ agents = {}
    /\ states = [l \in Lens |-> None]
    /\ lens_used = [l \in Lens |-> 0]
    /\ global_used = 0
    /\ now = 0
    /\ phase = "idle"
    /\ request = NoRequest
    /\ pc = [l \in Lens |-> "done"]
    /\ result = NoResult
    /\ accepted = {}
    /\ completed = << >>
    /\ seen = << >>
    /\ streak = [l \in Lens |-> 0]
    /\ called = NoCall

ExtFrame ==
    UNCHANGED <<config, agents, states, lens_used, global_used, now, request,
                pc, finding, accepted, completed, seen, streak>>

\* synthesis completes
SynthesizeExt ==
    /\ phase = "idle"
    /\ result' = Synthesized(synthesize(finding))
    /\ phase' = "synthesized"
    /\ UNCHANGED called
    /\ ExtFrame

\* ExtensionManager::apply of a manager holding these extensions
Apply(extensions) ==
    /\ phase = "synthesized"
    /\ result' = apply(extensions, 1, result, finding)
    /\ phase' = "returned"
    /\ called' = [op |-> "apply", extensions |-> extensions]
    /\ ExtFrame

NextExt ==
    \/ SynthesizeExt
    \/ \E exts \in ExtensionLists : Apply(exts)

SpecExt == InitExt /\ [][NextExt]_vars

\* C23: after ExtensionManager::apply, whatever the extensions are, the state
\* and the confidence of the EvaluationResult equal those produced by
\* synthesis.
C23_ExtensionsOnlyAddMetadata ==
    phase = "returned" /\ called.op = "apply"
        => /\ result.state = synthesize(finding).state
           /\ result.confidence = synthesize(finding).confidence

----------------------------------------------------------------------------
(* steward-runtime: EvaluationCache keyed by CacheKey: SpecCache           *)
(* seen holds the cache, a map from CacheKey to LensFinding.  A hash is    *)
(* held as the data fed to the hasher, so two hashes are equal exactly     *)
(* when that data is equal (no collision of the 64-bit values).            *)

hash_contract(contract) == <<contract.name, contract.contract_version>>

hash_output(output) == output.content

\* None and Some(&[]) feed nothing to the hasher
hash_context(context) == [i \in 1..Len(context) |-> context[i].content]

\* CacheKey::new
CacheKey(contract, output, context, lens) ==
    [contract_hash |-> hash_contract(contract),
     output_hash |-> hash_output(output),
     context_hash |-> hash_context(context),
     lens |-> lens]

\* EvaluationCache::get
get(cache, key) == IF key \in DOMAIN cache THEN <<cache[key]>> ELSE << >>

\* a Contract with its name and contract_version
Named(name, version, c) ==
    [k \in DOMAIN c \cup {"name", "contract_version"} |->
        IF k = "name" THEN name
        ELSE IF k = "contract_version" THEN version
        ELSE c[k]]

CacheContracts ==
    {Named("Test", v, c) :
        v \in {"1.0", "1.1"},
        c \in {BaseContract,
               [BaseContract EXCEPT
                   !.boundaries.invalidated_by = <<Rule("B1", {"pii", "expose"})>>,
                   !.acceptance.dignity_check = <<Rule("D1", {"pressure"})>>]}}

CacheOutputs ==
    {CleanOutput(<<"o", "k">>),
     [CleanOutput(<<"x", "@", "y", " ", "n", "o", "w">>) EXCEPT
        !.pii = <<Match("Email address", 0, 3)>>,
        !.pressure = <<Match("urgency pressure", 4, 7)>>]}

CacheRequests ==
    {[contract |-> c, output |-> o, context |-> << >>] :
        c \in CacheContracts, o \in CacheOutputs}

CacheLenses == {"DignityInclusion", "BoundariesSafety"}

MaxEntries == 2

InitCache ==
    /\ config = RuntimeConfig(GlobalMax)
    /\ agents = {}
    /\ states = [l \in Lens |-> None]
    /\ lens_used = [l \in Lens |-> 0]
    /\ global_used = 0
    /\ now = 0
    /\ phase = "idle"
    /\ request = NoRequest
    /\ pc = [l \in Lens |-> "idle"]
    /\ finding = [l \in Lens |-> NoFinding]
    /\ result = NoResult
    /\ accepted = {}
    /\ completed = << >>
    /\ seen = << >>
    /\ streak = [l \in Lens |-> 0]
    /\ called = NoCall

CacheFrame ==
    UNCHANGED <<config, agents, states, lens_used, global_used, now, phase,
                pc, finding, accepted, completed, streak>>

\* the finding of the lens for the request is computed and stored:
\* EvaluationCache::insert, the last write for a key wins
CacheInsert(req, lens) ==
    /\ \/ Cardinality(DOMAIN seen) < MaxEntries
       \/ CacheKey(req.contract, req.output, req.context, lens) \in DOMAIN seen
    /\ seen' = insert(seen, CacheKey(req.contract, req.output, req.context, lens),
                      LensEvaluate(lens, req))
    /\ request' = req
    /\ result' = NoResult
    /\ called' = [op |-> "insert", lens |-> lens]
    /\ CacheFrame

\* EvaluationCache::get for the request and the lens; result holds the
\* Option returned
CacheGet(req, lens) ==
    /\ request' = req
    /\ result' = get(seen, CacheKey(req.contract, req.output, req.context, lens))
    /\ called' = [op |-> "get", lens |-> lens]
    /\ UNCHANGED seen
    /\ CacheFrame

\* EvaluationCache::invalidate_all
InvalidateAll ==
    /\ seen' = << >>
    /\ request' = NoRequest
    /\ result' = NoResult
    /\ called' = [op |-> "invalidate_all", lens |-> "none"]
    /\ CacheFrame

NextCache ==
    \/ \E req \in CacheRequests, l \in CacheLenses : CacheInsert(req, l)
    \/ \E req \in CacheRequests, l \in CacheLenses : CacheGet(req, l)
    \/ InvalidateAll

SpecCache == InitCache /\ [][NextCache]_vars

\* C24: two requests with equal CacheKeys have the same deterministic lens
\* finding, so a cache hit returns the finding the lens computes for the
\* request that was looked up.
C24_CacheHitIsRecomputedValue ==
    called.op = "get" /\ result # << >>
        => result[1] = LensEvaluate(called.lens, request)

\* C25: every Blocked verdict of evaluate_with_context cites the rule and
\* the evidence of the blocking lens (the first lens, in canonical order,
\* whose finding is Blocked): rule_id is the id of that lens's first rule
\* evaluation with result Violated, it is never "UNKNOWN", and evidence is
\* that rule evaluation's evidence list, which is not empty.
C25_BlockedCitesRuleAndEvidence ==
    phase = "returned" /\ result.state = "Blocked"
        => \E k \in 1..Len(checks) :
             /\ finding[checks[k]].state = "Blocked"
             /\ \A j \in 1..(k - 1) : finding[checks[j]].state # "Blocked"
             /\ result.lens = checks[k]
             /\ \E v \in 1..Len(finding[checks[k]].rules_evaluated) :
                  /\ finding[checks[k]].rules_evaluated[v].result = "Violated"
                  /\ \A u \in 1..(v - 1) :
                        finding[checks[k]].rules_evaluated[u].result # "Violated"
                  /\ result.rule_id = finding[checks[k]].rules_evaluated[v].rule_id
                  /\ result.rule_id # "UNKNOWN"
                  /\ result.evidence = finding[checks[k]].rules_evaluated[v].evidence
                  /\ result.evidence # << >>

\* a Blocked verdict whose blocking lens holds two Violated rule evaluations
C25_Witness ==
    /\ phase = "returned"
    /\ result.state = "Blocked"
    /\ result.lens = "DignityInclusion"
    /\ Cardinality({v \in 1..Len(finding["DignityInclusion"].rules_evaluated) :
           finding["DignityInclusion"].rules_evaluated[v].result = "Violated"}) = 2
    /\ result.rule_id = finding["DignityInclusion"].rules_evaluated[1].rule_id

----------------------------------------------------------------------------
(* RuntimeOrchestrator::evaluate_lens run by several evaluations that      *)
(* share one CircuitBreaker: SpecTrial.  Each caller checks is_open and    *)
(* the budget, and when admitted awaits its agent and then records the     *)
(* success or the failure.  pc[c] is the position of caller c: "idle",     *)
(* "assisted" (admitted while the circuit was closed) or "trial" (admitted *)
(* while the circuit is HalfOpen), with the lens it evaluates.             *)

\* evaluations that run at the same time
MaxCallers == 2

Callers == 1..MaxCallers

TrialLenses == {"DignityInclusion"}

Idle == [at |-> "idle", lens |-> "none"]

InitTrial ==
    /\ config = RuntimeConfig(GlobalMax)
    /\ agents = TrialLenses
    /\ states = [l \in Lens |-> None]
    /\ lens_used = [l \in Lens |-> 0]
    /\ global_used = 0
    /\ now = 0
    /\ phase = "idle"
    /\ request = NoRequest
    /\ pc = [c \in Callers |-> Idle]
    /\ finding = [l \in Lens |-> NoFinding]
    /\ result = NoResult
    /\ accepted = {}
    /\ completed = << >>
    /\ seen = << >>
    /\ streak = [l \in Lens |-> 0]
    /\ called = NoCall

TrialFrame ==
    UNCHANGED <<config, agents, lens_used, global_used, now, phase, request,
                finding, result, accepted, completed, seen, streak>>

\* evaluate_lens up to the await: the circuit and budget checks
Admit(c, lens) ==
    /\ pc[c].at = "idle"
    /\ LET r == is_open(states, config, lens, now)
       IN  /\ states' = r.states
           /\ pc' = IF r.open \/ ~can_afford(config, lens_used, global_used,
                                             lens, EstimatedTokens)
                    THEN pc
                    ELSE [pc EXCEPT ![c] =
                            [at |-> IF r.states[lens].kind = "HalfOpen"
                                    THEN "trial" ELSE "assisted",
                             lens |-> lens]]
    /\ called' = Call("is_open", lens, states[lens])
    /\ TrialFrame

\* the arm Ok(Ok(finding)) of evaluate_lens
AgentOk(c) ==
    /\ pc[c].at # "idle"
    /\ states' = evaluate_lens_ok(states, config, pc[c].lens, NoFinding).states
    /\ pc' = [pc EXCEPT ![c] = Idle]
    /\ called' = Call("record_success", pc[c].lens, states[pc[c].lens])
    /\ TrialFrame

\* the arms Ok(Err(e)) and Err(_) of evaluate_lens
AgentErr(c) ==
    /\ pc[c].at # "idle"
    /\ states' = record_failure(states, config, pc[c].lens, now)
    /\ pc' = [pc EXCEPT ![c] = Idle]
    /\ called' = Call("record_failure", pc[c].lens, states[pc[c].lens])
    /\ TrialFrame

NextTrial ==
    \/ \E c \in Callers, l \in TrialLenses : Admit(c, l)
    \/ \E c \in Callers : AgentOk(c)
    \/ \E c \in Callers : AgentErr(c)
    \/ Tick

SpecTrial == InitTrial /\ [][NextTrial]_vars

\* C26: while the circuit of a lens is HalfOpen at most one of the
\* evaluations that check is_open for it is admitted to the assisted path
\* before its success or failure has been recorded.
C26_OneTrialCallWhileHalfOpen ==
    \A l \in TrialLenses :
        Cardinality({c \in Callers : pc[c] = [at |-> "trial", lens |-> l]}) <= 1

----------------------------------------------------------------------------
(* BudgetTracker shared by several lens evaluations: SpecBudgetConc.  Each *)
(* caller asks can_afford for an estimate and, when the answer is true,    *)
(* makes its call and records the usage the call reports.  pc[c] is the    *)
(* position of caller c: "idle", or "afforded" with the lens and the       *)
(* estimate can_afford accepted.                                           *)

InitBudgetConc ==
    /\ config \in Trackers
    /\ agents = {}
    /\ states = [l \in Lens |-> None]
    /\ lens_used = [l \in Lens |-> 0]
    /\ global_used = 0
    /\ now = 0
    /\ phase = "idle"
    /\ request = NoRequest
    /\ pc = [c \in Callers |-> [at |-> "idle", lens |-> "none", tokens |-> 0]]
    /\ finding = [l \in Lens |-> NoFinding]
    /\ result = NoResult
    /\ accepted = {}
    /\ completed = {}
    /\ seen = << >>
    /\ streak = [l \in Lens |-> 0]
    /\ called = NoCall

BudgetConcFrame ==
    UNCHANGED <<config, agents, states, now, phase, request, finding, result,
                accepted, completed, seen, streak>>

\* can_afford(lens, n) called by c; c goes on to its call when it is true
CheckBudget(c, lens, n) ==
    /\ pc[c].at = "idle"
    /\ pc' = IF tracker_can_afford(config, lens_used, global_used, lens, n)
             THEN [pc EXCEPT ![c] = [at |-> "afforded", lens |-> lens,
                                     tokens |-> n]]
             ELSE pc
    /\ called' = [op |-> "can_afford", lens |-> lens, tokens |-> n]
    /\ UNCHANGED <<lens_used, global_used>>
    /\ BudgetConcFrame

\* record_usage(lens, usage) called by c after its call
RecordAfterCall(c, usage) ==
    /\ pc[c].at = "afforded"
    /\ global_used < MaxGlobalUsed
    /\ lens_used' = record_usage(config, lens_used, global_used, pc[c].lens,
                                 usage).lens_used
    /\ global_used' = record_usage(config, lens_used, global_used, pc[c].lens,
                                   usage).global_used
    /\ pc' = [pc EXCEPT ![c] = [at |-> "idle", lens |-> "none", tokens |-> 0]]
    /\ called' = [op |-> "record_usage", lens |-> pc[c].lens,
                  tokens |-> total(usage)]
    /\ BudgetConcFrame

\* BudgetTracker::reset between batches: no caller is in flight
ResetBetweenBatches ==
    /\ \A c \in Callers : pc[c].at = "idle"
    /\ lens_used' = [l \in Lens |-> 0]
    /\ global_used' = 0
    /\ called' = [op |-> "reset", lens |-> "none", tokens |-> 0]
    /\ UNCHANGED pc
    /\ BudgetConcFrame

NextBudgetConc ==
    \/ \E c \in Callers, l \in BudgetLenses, n \in Estimates :
          CheckBudget(c, l, n)
    \/ \E c \in Callers, u \in Usages : RecordAfterCall(c, u)
    \/ ResetBetweenBatches

SpecBudgetConc == InitBudgetConc /\ [][NextBudgetConc]_vars

\* C27: every token budget is a monotonic counter with a ceiling: between
\* resets the consumed count of each lens and the global one never
\* decreases, and it never exceeds max_tokens, also when several callers
\* pass can_afford and then record, and when the recorded usage differs
\* from the estimate.
C27_MonotonicWithCeiling ==
    [][/\ called'.op # "reset"
          => /\ global_used' >= global_used
             /\ \A l \in Lens : lens_used'[l] >= lens_used[l]
       /\ global_used' <= config.global_max_tokens
       /\ \A l \in DOMAIN config.lens_budgets :
             lens_used'[l] <= config.lens_budgets[l]]_vars

\* C28: in the Boundaries and the Dignity lens the first rule, in contract
\* order, whose invalidating detector matches makes the lens return Blocked
\* citing that rule, and no rule after it is evaluated: the rule evaluation
\* with result Violated is the last entry of rules_evaluated.
C28_FirstViolationStopsLens ==
    \A l \in {"BoundariesSafety", "DignityInclusion"} :
        phase = "returned" /\ finding[l].state = "Blocked"
            => \E v \in 1..Len(finding[l].rules_evaluated) :
                 /\ finding[l].rules_evaluated[v].result = "Violated"
                 /\ \A u \in 1..(v - 1) :
                       finding[l].rules_evaluated[u].result # "Violated"
                 /\ finding[l].text[1] = finding[l].rules_evaluated[v].rule_id
                 /\ v = Len(finding[l].rules_evaluated)

\* C29: when the contract defines no rules in the topic of a lens, that lens
\* returns Pass with a reduced confidence between 0.5 and 0.7, for every
\* output and context: never Escalate or Blocked, never full confidence.
C29_NoRulesPassesWithReducedConfidence ==
    phase = "returned"
        => \A l \in {"DignityInclusion", "BoundariesSafety", "RestraintPrivacy",
                     "TransparencyContestability"} :
             (CASE l = "DignityInclusion" ->
                     dignity_rules(request.contract) = << >>
                [] l = "BoundariesSafety" ->
                     /\ request.contract.boundaries.invalidated_by = << >>
                     /\ request.contract.boundaries.must_escalate_when = << >>
                     /\ request.contract.boundaries.must_pause_when = << >>
                [] l = "RestraintPrivacy" ->
                     restraint_rules(request.contract) = << >>
                [] l = "TransparencyContestability" ->
                     transparency_rules(request.contract) = << >>)
                => /\ finding[l].state = "Pass"
                   /\ finding[l].confidence >= 500
                   /\ finding[l].confidence <= 700

====
